---- MODULE Spec2Model ----
(***************************************************************************)
(* Denploy: the application lifecycle orchestrator.                        *)
(*                                                                         *)
(* The model follows the TypeScript sources: the key/value store           *)
(* (src/db/kv.ts), the process manager (core/process-manager.ts), the     *)
(* file manager (core/file-manager.ts), the deployment service            *)
(* (core/deployment.ts) and the application routes (routes/apps.ts).      *)
(*                                                                         *)
(* Every request handler is an asynchronous function.  A handler runs     *)
(* without interruption up to its next `await` of a real I/O operation    *)
(* (a store read or write, a file-system call, the exit of a child         *)
(* process); one action of the model is one such uninterrupted segment.   *)
(* Handlers in flight are the entries of `tasks`; `pc` is the await the   *)
(* handler is suspended at.                                                *)
(***************************************************************************)
EXTENDS Integers, Sequences, FiniteSets, TLC

----------------------------------------------------------------------------
(* Bounds of the model (not program constants).                            *)

MaxApps == 2
MaxPids == 3
MaxTasks == 2
MaxReq == 4
MaxReqPorts == 4
MaxReqSup == 2
MaxReqHist == 1
MaxNewDeps == 2
MaxPrior == 11
MaxReqDom == 3
MaxClients == 1
MaxWsReq == 2
MaxLines == 2
MaxCasts == 1
MaxReqOwn == 1
MaxWsOwn == 1
MaxReqCross == 1
MaxReqFirst == 3
MaxReqUpd == 2
MaxReqRoute == 1
MaxScan == 3
MaxReqGrace == 1
MaxReqHealth == 2
MaxReqRename == 2
MaxUuid == 3
MaxClock == 1
MaxReqRetain == 2

(* Program constants.                                                      *)

StartPort == 8001
MaxPort == 65535
DefaultLimit == 10
MaxDeploymentsPerApp == 10
HistoryLimit == 50

----------------------------------------------------------------------------
(* The fields of the records that the core reads or that the claims are  *)
(* about are kept; the process id stored with the status (never read),   *)
(* time stamps, build logs and environment maps are left out.             *)
(*                                                                         *)
(* Identifiers.  Application ids, deployment ids and pids are numbers; 0   *)
(* stands for `undefined` / `null`.  Deployment ids are UUIDs in the       *)
(* program: the store lists deployments in key order, i.e. in the order   *)
(* of their ids, which is unrelated to the order of their creation.       *)

AppIds == 1..MaxApps
Pids == 1..MaxPids
TaskIds == 1..MaxTasks
DepIds == 1..(MaxPrior + MaxNewDeps)

(* join(config.apps.basePath, userId, appName): the directory of an app    *)
(* is a function of its owner and its name.  One owner; two names.        *)
Names == {"n1", "n2"}
Subdomains == {"s1", "s2"}
CreateInputs == {<<"n1", "s1">>, <<"n1", "s2">>, <<"n2", "s2">>}

(* WebSocket connections, the users behind them, and the owner of every   *)
(* application of the model.                                               *)
ClientIds == 1..MaxClients
Users == {"u1", "u2"}
Owner == "u1"

(* The two pipes of a child.                                               *)
Streams == {"stdout", "stderr"}

(* What one read of a pipe returns, as the pieces text.split("\n") cuts   *)
(* it into: "L" is a piece with visible characters, "B" a piece that is   *)
(* empty or white space (the piece after a final line feed is empty).     *)
Chunks == {<<"L", "B">>, <<"L", "L", "B">>, <<"B", "B">>}

(* The custom domains a client asks for; all of them pass the format      *)
(* validation of the route.                                                *)
Domains == {"shop.example", "blog.example"}

(* The artifact of a deploy request: a single main.ts, an archive with    *)
(* main.ts, an archive without it, an archive that cannot be extracted.   *)
Artifacts == {"single", "zip", "zip_nomain", "zip_corrupt"}

(* Values of MAX_DEPLOYMENTS_PER_APP: a small one and the default.        *)
Caps == {1, MaxDeploymentsPerApp}

NoApp == [status |-> "none", port |-> 0, cur |-> 0, name |-> "", sub |-> "",
          domains |-> {}]
NoDeployment == [appId |-> 0, version |-> 0, status |-> "none", err |-> ""]
NoProcess == [appId |-> 0, rel |-> 0, alive |-> FALSE, asked |-> FALSE,
              mon |-> "none", ok |-> FALSE, rd |-> NoApp]
EmptyDir == [exists |-> FALSE, releases |-> {}, mains |-> {}, current |-> 0]
NoPre == [cur |-> 0, link |-> 0, proc |-> 0, active |-> {}, status |-> "none",
          deps |-> <<>>]
(* WSClient {socket, appId, userId}; pc/target are the position of its     *)
(* subscribeLogs call, recv the messages the peer was sent, since the      *)
(* number of persisted entries when client.appId was set.                  *)
NoClient == [open |-> FALSE, user |-> "", appId |-> 0, pc |-> "idle",
             target |-> 0, since |-> 0, recv |-> <<>>]
Idle == [kind |-> "idle", pc |-> "idle", app |-> 0, name |-> "", sub |-> "",
         dep |-> 0, upd |-> <<>>, rd |-> NoApp, pid |-> 0, doms |-> {},
         ctx |-> "", port |-> 0, res |-> "", stage |-> "", spawned |-> 0,
         built |-> FALSE, ver |-> 0, pre |-> NoPre]

VARIABLES
  apps,        \* ["apps", id] (and its copy ["apps_by_user", userId, id])
  subIndex,    \* ["apps_by_subdomain", subdomain] -> app id
  deps,        \* ["deployments", id] (and ["deployments_by_app", appId, id])
  ports,       \* ["port_assignments", port] -> app id
  fs,          \* per application directory: releases, main.ts files, `current`
  nginx,       \* the applications that have a routing configuration file
  processes,   \* ProcessManager.processes: app id -> pid
  procs,       \* the child processes ever spawned, with their exit watcher
  tasks,       \* the request handlers in flight
  nextApp,     \* the next fresh application id
  nextPid,     \* the next fresh pid
  idPool,      \* the deployment ids not generated yet
  reqs,        \* number of requests still to arrive
  conc,        \* number of requests the front end handles at a time
  boot,        \* the first pid of the running platform process
  logs,        \* ["logs", appId, ...]: number of entries of the application
  emitted,     \* number of non-empty lines the application's children wrote
  pipe,        \* per child and stream: the chunk written and not yet read
  cap,         \* per child and stream: lines of the chunk read, still to add
  clients,     \* WebSocketManager.clients and the peers' inboxes
  casts,       \* number of broadcastLog calls
  wsreqs,      \* number of WebSocket messages still to arrive
  lines,       \* number of chunks the children will still write
  session,     \* c.get("user"): the user the API requests come from
  maxDeployments, \* config.limits.maxDeploymentsPerApp (MAX_DEPLOYMENTS_PER_APP)
  startPort, \* config.apps.startPort (APPS_START_PORT)
  sigkill, \* the grace timers of stopApp that fired: <<request, pid>> sent SIGKILL
  visited, \* healthCheckJob: the entries of the process table the running job has visited
  journal, \* the ["logs", appId, timestamp, id] keys of application 1, with stream and line number
  clock \* Date.now() in milliseconds, from the start of the model

(* The state that no handler of the routes touches.                        *)
ext == <<boot, logs, emitted, pipe, cap, clients, casts, wsreqs, lines,
         session, maxDeployments,
         startPort,
         sigkill,
         visited,
         journal,
         clock>>

vars == <<apps, subIndex, deps, ports, fs, nginx, processes, procs, tasks,
          nextApp, nextPid, idPool, reqs, conc, ext>>

store == <<apps, subIndex, deps, ports>>

----------------------------------------------------------------------------
(* The store.                                                              *)

Max(S) == CHOOSE x \in S : \A y \in S : y <= x

RECURSIVE SortedDesc(_)
SortedDesc(S) == IF S = {} THEN <<>> ELSE <<Max(S)>> \o SortedDesc(S \ {Max(S)})

Take(s, n) == IF Len(s) <= n THEN s ELSE SubSeq(s, 1, n)

(* kv.list({prefix: ["deployments_by_app", appId]}, {limit, reverse: true}):*)
(* the deployments of the application in descending key order, cut at     *)
(* `limit` entries.                                                        *)
getDeploymentsByApp(appId, limit) ==
  Take(SortedDesc({d \in DepIds : deps[d].appId = appId}), limit)

getPortAssignment(port) == IF port \in DOMAIN ports THEN ports[port] ELSE 0

assignPortDropped(port, appId) == ports

assignPort(port, appId) ==
  [q \in (DOMAIN ports) \cup {port} |-> IF q = port THEN appId ELSE ports[q]]

releasePortKept(port) == ports

releasePort(port) == [q \in (DOMAIN ports) \ {port} |-> ports[q]]

(* updateDeployment: read the record, overwrite the given fields, write   *)
(* both copies in one atomic commit.  Every caller sets `status`, and     *)
(* `err` is set together with status `failed`, so a write that is based   *)
(* on a stale read stores the same value of the fields the model keeps.   *)
updateDeployment(d, status, err) ==
  [deps EXCEPT ![d] = [@ EXCEPT !.status = status,
                                 !.err = IF err = "" THEN @ ELSE err]]

(* exists(path) of @std/fs follows symbolic links: `current` exists when  *)
(* the link is there and the release directory it names is there.         *)
existsCurrent(name) ==
  /\ fs[name].exists
  /\ fs[name].current # 0
  /\ fs[name].current \in fs[name].releases

ActiveDeployments(appId) ==
  {d \in DepIds : deps[d].appId = appId /\ deps[d].status = "active"}

----------------------------------------------------------------------------
(* Results of a handler.                                                   *)

Finish(r, res, stage) ==
  [r EXCEPT !.pc = "done", !.res = res, !.stage = stage, !.rd = NoApp,
            !.pid = 0, !.upd = <<>>, !.ctx = "", !.doms = {}]

(* An error thrown inside deployApp's try block reaches its catch block;  *)
(* elsewhere it ends the request with an error response.                   *)
Thrown(r, stage) ==
  IF r.kind = "deploy"
    THEN [r EXCEPT !.pc = "d_fail", !.stage = stage]
    ELSE Finish(r, "failed", stage)

Busy(t) == tasks[t].pc \notin {"idle", "done"}

(* Requests that will still call command.spawn().                          *)
SpawnsPending ==
  Cardinality({t \in TaskIds :
     /\ tasks[t].kind \in {"start", "restart", "deploy", "rollback"}
     /\ tasks[t].pc # "done"
     /\ tasks[t].spawned = 0})

----------------------------------------------------------------------------
(* ProcessManager (core/process-manager.ts).  The operators below are the *)
(* synchronous segments of startApp / stopApp / restartApp; each fixes    *)
(* the next value of tasks, processes, procs and nextPid.                  *)

(* command.spawn(); processes.set(app.id, ...); captureOutput; monitor.   *)
(* The child runs <appPath>/main.ts where appPath is the `current` link   *)
(* of the directory computed from the handler's copy of the app record.   *)
Spawn(t, r) ==
  \/ /\ nextPid <= MaxPids
     /\ processes' = [processes EXCEPT ![r.app] = nextPid]
     /\ procs' = [procs EXCEPT ![nextPid] =
                    [appId |-> r.app, rel |-> fs[r.name].current,
                     alive |-> TRUE, asked |-> FALSE, mon |-> "watch",
                     ok |-> FALSE, rd |-> NoApp]]
     /\ nextPid' = nextPid + 1
     /\ tasks' = [tasks EXCEPT ![t] =
                    [r EXCEPT !.pc = "start_rd", !.spawned = nextPid]]
  \/ /\ tasks' = [tasks EXCEPT ![t] =
                    [r EXCEPT !.pc = "serr_rd", !.stage = "spawn"]]
     /\ UNCHANGED <<processes, procs, nextPid>>

(* stopApp with an entry in the table: SIGTERM, then await process.status. *)
(* kill() throws when the child has already terminated.                    *)
KillAndWait(t, r, ctx) ==
  LET p == processes[r.app] IN
  /\ UNCHANGED <<processes, nextPid>>
  /\ IF procs[p].alive
       THEN /\ procs' = [procs EXCEPT ![p].asked = TRUE]
            /\ tasks' = [tasks EXCEPT ![t] =
                  [r EXCEPT !.pc = "stop_wait", !.pid = p, !.ctx = ctx]]
       ELSE /\ procs' = procs
            /\ tasks' = [tasks EXCEPT ![t] =
                  IF ctx = "startinner"
                    THEN [r EXCEPT !.pc = "serr_rd", !.stage = "stop"]
                    ELSE Thrown(r, "stop")]

(* startApp: stop the existing process first, then spawn.                  *)
startApp(t, r) ==
  IF processes[r.app] # 0 THEN KillAndWait(t, r, "startinner") ELSE Spawn(t, r)

(* What follows a stopApp that returned normally.                          *)
AfterStop(t, r, ctx) ==
  CASE ctx = "stop" ->
         /\ tasks' = [tasks EXCEPT ![t] = Finish(r, "ok", "")]
         /\ UNCHANGED <<processes, procs, nextPid>>
    [] ctx = "delete" ->
         /\ tasks' = [tasks EXCEPT ![t] = [r EXCEPT !.pc = "x_nginx"]]
         /\ UNCHANGED <<processes, procs, nextPid>>
    [] ctx = "restart" -> startApp(t, r)
    [] ctx = "health" ->
         /\ tasks' = [tasks EXCEPT ![t] = [r EXCEPT !.pc = "h_next"]]
         /\ UNCHANGED <<processes, procs, nextPid>>
    [] OTHER -> Spawn(t, r)

(* stopApp: no entry, no effect.                                           *)
stopAppThrows(t, r, ctx) ==
  IF processes[r.app] = 0
    THEN /\ tasks' = [tasks EXCEPT ![t] = Thrown(r, "stop")]
         /\ UNCHANGED <<processes, procs, nextPid>>
    ELSE KillAndWait(t, r, ctx)

stopApp(t, r, ctx) ==
  IF processes[r.app] = 0 THEN AfterStop(t, r, ctx) ELSE KillAndWait(t, r, ctx)

(* restartApp = stopApp, then startApp.                                    *)
restartApp(t, r) == stopApp(t, r, "restart")

----------------------------------------------------------------------------
(* Steps of stopApp and startApp after their awaits.                       *)

sup == <<processes, procs, nextPid>>
other == <<subIndex, ports, nginx, nextApp, idPool, reqs, conc, ext>>

(* stopApp, after process.status: processes.delete happened at the exit;  *)
(* updateApp(appId, {status: "stopped", processId: undefined}) reads ...   *)
StopRead(t) ==
  LET r == tasks[t] IN
  /\ r.pc = "stop_rd"
  /\ IF apps[r.app] = NoApp
       THEN tasks' = [tasks EXCEPT ![t] =
               IF r.ctx = "startinner"
                 THEN [r EXCEPT !.pc = "serr_rd", !.stage = "stop"]
                 ELSE Thrown(r, "stop")]
       ELSE tasks' = [tasks EXCEPT ![t] =
               [r EXCEPT !.pc = "stop_wr", !.rd = apps[r.app]]]
  /\ UNCHANGED <<apps, deps, fs, sup, other>>

(* ... and writes the record it read with the two fields replaced.        *)
StopWrite(t) ==
  LET r == tasks[t] IN
  /\ r.pc = "stop_wr"
  /\ apps' = [apps EXCEPT ![r.app] =
                [r.rd EXCEPT !.status = "stopped"]]
  /\ AfterStop(t, [r EXCEPT !.rd = NoApp, !.pid = 0], r.ctx)
  /\ UNCHANGED <<deps, fs, other>>

(* startApp, after the spawn: updateApp(app.id, {status: "running", ...}). *)
StartRead(t) ==
  LET r == tasks[t] IN
  /\ r.pc = "start_rd"
  /\ tasks' = [tasks EXCEPT ![t] =
        IF apps[r.app] = NoApp
          THEN [r EXCEPT !.pc = "serr_rd", !.stage = "start"]
          ELSE [r EXCEPT !.pc = "start_wr", !.rd = apps[r.app]]]
  /\ UNCHANGED <<apps, deps, fs, sup, other>>

StartWrite(t) ==
  LET r == tasks[t] IN
  /\ r.pc = "start_wr"
  /\ apps' = [apps EXCEPT ![r.app] =
                [r.rd EXCEPT !.status = "running"]]
  /\ tasks' = [tasks EXCEPT ![t] =
        IF r.kind = "deploy"
          THEN [r EXCEPT !.pc = "d_clean", !.rd = NoApp]
          ELSE Finish([r EXCEPT !.rd = NoApp], "ok", "")]
  /\ UNCHANGED <<deps, fs, sup, other>>

(* startApp's catch block: updateApp(app.id, {status: "error"}); throw.    *)
StartErrRead(t) ==
  LET r == tasks[t] IN
  /\ r.pc = "serr_rd"
  /\ tasks' = [tasks EXCEPT ![t] =
        IF apps[r.app] = NoApp
          THEN Thrown(r, r.stage)
          ELSE [r EXCEPT !.pc = "serr_wr", !.rd = apps[r.app]]]
  /\ UNCHANGED <<apps, deps, fs, sup, other>>

(* startApp's catch block without its updateApp.                          *)
StartErrWriteSkipped(t) ==
  LET r == tasks[t] IN
  /\ r.pc = "serr_wr"
  /\ apps' = apps
  /\ tasks' = [tasks EXCEPT ![t] = Thrown([r EXCEPT !.rd = NoApp], r.stage)]
  /\ UNCHANGED <<deps, fs, sup, other>>

StartErrWrite(t) ==
  LET r == tasks[t] IN
  /\ r.pc = "serr_wr"
  /\ apps' = [apps EXCEPT ![r.app] = [r.rd EXCEPT !.status = "error"]]
  /\ tasks' = [tasks EXCEPT ![t] = Thrown([r EXCEPT !.rd = NoApp], r.stage)]
  /\ UNCHANGED <<deps, fs, sup, other>>

----------------------------------------------------------------------------
(* The child processes and their exit watchers (monitorProcess).           *)

(* A child exits with a successful or an unsuccessful status.  The        *)
(* promise process.status resolves: the exit watcher runs                 *)
(* processes.delete(appId), every stopApp waiting for this child runs     *)
(* clearTimeout and processes.delete(appId), and each of them goes on to  *)
(* its updateApp.  A child that outlived the platform process that        *)
(* spawned it has no watcher.                                              *)
ChildExits(p, success) ==
  /\ procs[p].alive
  /\ procs' = [procs EXCEPT ![p].alive = FALSE, ![p].ok = success,
                            ![p].mon = IF @ = "watch" THEN "rd" ELSE @]
  /\ processes' = IF procs[p].mon = "watch"
                    THEN [processes EXCEPT ![procs[p].appId] = 0]
                    ELSE processes
  /\ tasks' = [t \in TaskIds |->
        IF tasks[t].pc = "stop_wait" /\ tasks[t].pid = p
          THEN [tasks[t] EXCEPT !.pc = "stop_rd"]
          ELSE tasks[t]]
  /\ UNCHANGED <<apps, deps, fs, nextPid, other>>

(* The child exits after stopApp has sent it SIGTERM (or SIGKILL).         *)
Exit(p, success) == procs[p].asked /\ ChildExits(p, success)

(* The child exits on its own.                                             *)
Crash(p, success) == ~procs[p].asked /\ ChildExits(p, success)

(* The callback of stopApp's setTimeout(..., 10000) that clearTimeout does *)
(* not cancel once the awaited status is there.                            *)
GraceTimerKept(t) ==
  LET p == tasks[t].pid IN
  /\ tasks[t].pc \in {"stop_wait", "stop_rd", "stop_wr"}
  /\ <<t, p>> \notin sigkill
  /\ sigkill' = sigkill \cup {<<t, p>>}
  /\ UNCHANGED <<apps, deps, fs, sup, tasks, subIndex, ports, nginx, nextApp,
                 idPool, reqs, conc, boot, logs, emitted, pipe, cap, clients,
                 casts, wsreqs, lines, session, maxDeployments, startPort,
                 visited, journal, clock>>

(* stopApp's grace timer: armed after kill("SIGTERM") and cleared by       *)
(* clearTimeout when the awaited process.status is there; when it fires,   *)
(* the callback sends SIGKILL to the child.                                *)
GraceTimer(t) ==
  LET p == tasks[t].pid IN
  /\ tasks[t].pc = "stop_wait"
  /\ <<t, p>> \notin sigkill
  /\ sigkill' = sigkill \cup {<<t, p>>}
  /\ UNCHANGED <<apps, deps, fs, sup, tasks, subIndex, ports, nginx, nextApp,
                 idPool, reqs, conc, boot, logs, emitted, pipe, cap, clients,
                 casts, wsreqs, lines, session, maxDeployments, startPort,
                 visited, journal, clock>>

(* The children that were sent SIGKILL.                                    *)
Killed == {p \in Pids : \E t \in TaskIds : <<t, p>> \in sigkill}

(* A child that was sent SIGKILL terminates.                               *)
ExitKilled(p) == p \in Killed /\ Exit(p, FALSE)

(* monitorProcess: updateApp(appId, {status: success ? "stopped" :        *)
(* "crashed", processId: undefined}); an error is logged and dropped.     *)
MonitorRead(p) ==
  /\ procs[p].mon = "rd"
  /\ procs' = [procs EXCEPT ![p] =
        IF apps[procs[p].appId] = NoApp
          THEN [@ EXCEPT !.mon = "done"]
          ELSE [@ EXCEPT !.mon = "wr", !.rd = apps[procs[p].appId]]]
  /\ UNCHANGED <<apps, deps, fs, processes, nextPid, tasks, other>>

monitorStatus(success) == IF success THEN "stopped" ELSE "crashed"

MonitorWrite(p) ==
  /\ procs[p].mon = "wr"
  /\ apps' = [apps EXCEPT ![procs[p].appId] =
        [procs[p].rd EXCEPT !.status = monitorStatus(procs[p].ok)]]
  /\ procs' = [procs EXCEPT ![p].mon = "done", ![p].rd = NoApp]
  /\ UNCHANGED <<deps, fs, processes, nextPid, tasks, other>>

----------------------------------------------------------------------------
(* Requests (routes/apps.ts).  A request is accepted into the lowest free *)
(* slot, where it replaces the record of a request that has been answered; *)
(* its first action is the route's getAppById.                             *)

CanBegin(t) ==
  /\ ~Busy(t)
  /\ \A u \in TaskIds : u < t => Busy(u)
  /\ reqs > 0
  /\ Cardinality({u \in TaskIds : Busy(u)}) < conc

CanSpawn == (nextPid - 1) + SpawnsPending < MaxPids

Accept == /\ reqs' = reqs - 1
          /\ UNCHANGED <<subIndex, ports, nginx, nextApp, conc, ext>>

(* The handler's copy of the application record (its id and name); `pre` *)
(* remembers what a deploy or rollback request found when it arrived.     *)
NewTask(kind, a) ==
  [Idle EXCEPT !.kind = kind, !.app = a, !.name = apps[a].name,
               !.pre = IF kind \notin {"deploy", "rollback"} THEN NoPre
                       ELSE [cur |-> apps[a].cur,
                             link |-> fs[apps[a].name].current,
                             proc |-> processes[a],
                             active |-> ActiveDeployments(a),
                             status |-> apps[a].status,
                             deps |-> deps]]

(* POST /:id/stop *)
BeginStop(t, a) ==
  /\ CanBegin(t)
  /\ apps[a] # NoApp
  /\ stopApp(t, NewTask("stop", a), "stop")
  /\ Accept
  /\ UNCHANGED <<apps, deps, fs, idPool>>

(* POST /:id/start *)
BeginStart(t, a) ==
  /\ CanBegin(t)
  /\ CanSpawn
  /\ apps[a] # NoApp
  /\ IF apps[a].cur = 0
       THEN /\ tasks' = [tasks EXCEPT ![t] =
                   Finish(NewTask("start", a), "rejected", "nodeployment")]
            /\ UNCHANGED sup
       ELSE startApp(t, NewTask("start", a))
  /\ Accept
  /\ UNCHANGED <<apps, deps, fs, idPool>>

(* POST /:id/restart *)
BeginRestart(t, a) ==
  /\ CanBegin(t)
  /\ CanSpawn
  /\ apps[a] # NoApp
  /\ IF apps[a].cur = 0
       THEN /\ tasks' = [tasks EXCEPT ![t] =
                   Finish(NewTask("restart", a), "rejected", "nodeployment")]
            /\ UNCHANGED sup
       ELSE restartApp(t, NewTask("restart", a))
  /\ Accept
  /\ UNCHANGED <<apps, deps, fs, idPool>>

----------------------------------------------------------------------------
(* DeploymentService.deployApp (core/deployment.ts).                       *)

Pair(d, status) == <<d, status>>

(* The status writes of deployApp after the activation: the new record    *)
(* becomes active, then every record of the list read at the start that   *)
(* was active in that list becomes inactive.                               *)
deployUpdates(d, previousDeployments) ==
  <<Pair(d, "active")>> \o
  SelectSeq([i \in 1..Len(previousDeployments) |->
               Pair(previousDeployments[i],
                    IF deps[previousDeployments[i]].status = "active"
                      THEN "inactive" ELSE "keep")],
            LAMBDA x : x[2] # "keep")

(* POST /:id/deploy: getAppById, read the upload, v4.generate().           *)
BeginDeploy(t, a, d) ==
  /\ CanBegin(t)
  /\ CanSpawn
  /\ apps[a] # NoApp
  /\ d \in idPool
  /\ idPool' = idPool \ {d}
  /\ tasks' = [tasks EXCEPT ![t] =
        [NewTask("deploy", a) EXCEPT !.pc = "d_list", !.dep = d]]
  /\ reqs' = reqs - 1
  /\ UNCHANGED <<apps, deps, fs, sup, subIndex, ports, nginx, nextApp, conc,
                 ext>>

(* previousDeployments = getDeploymentsByApp(app.id); version = length + 1 *)
DeployList(t) ==
  LET r == tasks[t]
      previousDeployments == getDeploymentsByApp(r.app, DefaultLimit) IN
  /\ r.pc = "d_list"
  /\ tasks' = [tasks EXCEPT ![t] =
        [r EXCEPT !.pc = "d_create",
                  !.ver = Len(previousDeployments) + 1,
                  !.upd = deployUpdates(r.dep, previousDeployments)]]
  /\ UNCHANGED <<apps, deps, fs, sup, other>>

(* deployApp without the createDeployment call.                            *)
DeployCreateSkipped(t) ==
  LET r == tasks[t] IN
  /\ r.pc = "d_create"
  /\ tasks' = [tasks EXCEPT ![t] = [r EXCEPT !.pc = "d_brd"]]
  /\ UNCHANGED <<apps, deps, fs, sup, other>>

(* createDeployment({..., status: "building"})                             *)
DeployCreate(t) ==
  LET r == tasks[t] IN
  /\ r.pc = "d_create"
  /\ deps' = [deps EXCEPT ![r.dep] =
        [appId |-> r.app, version |-> r.ver, status |-> "building",
         err |-> ""]]
  /\ tasks' = [tasks EXCEPT ![t] = [r EXCEPT !.pc = "d_brd"]]
  /\ UNCHANGED <<apps, fs, sup, other>>

(* updateApp(app.id, {status: "building"})                                 *)
DeployBuildingRead(t) ==
  LET r == tasks[t] IN
  /\ r.pc = "d_brd"
  /\ tasks' = [tasks EXCEPT ![t] =
        IF apps[r.app] = NoApp
          THEN Thrown(r, "store")
          ELSE [r EXCEPT !.pc = "d_bwr", !.rd = apps[r.app]]]
  /\ UNCHANGED <<apps, deps, fs, sup, other>>

DeployBuildingWrite(t) ==
  LET r == tasks[t] IN
  /\ r.pc = "d_bwr"
  /\ apps' = [apps EXCEPT ![r.app] = [r.rd EXCEPT !.status = "building"]]
  /\ tasks' = [tasks EXCEPT ![t] =
        [r EXCEPT !.pc = "d_files", !.rd = NoApp, !.built = TRUE]]
  /\ UNCHANGED <<deps, fs, sup, other>>

(* The release is materialized and validated:                              *)
(*   createDeploymentDirectory: ensureDir(<app dir>/releases/<id>);        *)
(*   Deno.writeFile(main.ts) for a single file; saveUploadedFile,          *)
(*   extractZip and Deno.remove(zipPath) for an archive;                   *)
(*   validateMainFile: exists(<release>/main.ts), else throw.              *)
(* These calls touch the new release directory only.                       *)
Materialize(t, art) ==
  LET r == tasks[t] IN
  /\ r.pc = "d_files"
  /\ fs' = [fs EXCEPT
        ![r.name].exists = TRUE,
        ![r.name].releases = @ \cup {r.dep},
        ![r.name].mains = IF art \in {"single", "zip"} THEN @ \cup {r.dep}
                          ELSE @]
  /\ tasks' = [tasks EXCEPT ![t] =
        CASE art = "zip_corrupt" -> Thrown(r, "extract")
          [] art = "zip_nomain" -> Thrown(r, "validate")
          [] OTHER -> [r EXCEPT !.pc = "act"]]
  /\ UNCHANGED <<apps, deps, sup, other>>

----------------------------------------------------------------------------
(* FileManager.activateDeployment (core/file-manager.ts), used by deploy  *)
(* and by rollback.                                                        *)

(* if (await exists(currentPath)) ...                                      *)
ActivateExists(t) ==
  LET r == tasks[t] IN
  /\ r.pc = "act"
  /\ tasks' = [tasks EXCEPT ![t] =
        [r EXCEPT !.pc = IF existsCurrent(r.name) THEN "act_rm" ELSE "act_ln"]]
  /\ UNCHANGED <<apps, deps, fs, sup, other>>

(* await Deno.remove(currentPath, {recursive: true}): removes the link,   *)
(* or throws (the link is gone already, or the call fails).                *)
ActivateRemove(t) ==
  LET r == tasks[t] IN
  /\ r.pc = "act_rm"
  /\ \/ /\ fs[r.name].current # 0
        /\ fs' = [fs EXCEPT ![r.name].current = 0]
        /\ tasks' = [tasks EXCEPT ![t] = [r EXCEPT !.pc = "act_ln"]]
     \/ /\ fs' = fs
        /\ tasks' = [tasks EXCEPT ![t] = Thrown(r, "activate")]
  /\ UNCHANGED <<apps, deps, sup, other>>

(* await Deno.symlink(releasePath, currentPath): creates the link, or     *)
(* throws (a link is there, the directory is missing, or the call fails). *)
ActivateSymlink(t) ==
  LET r == tasks[t] IN
  /\ r.pc = "act_ln"
  /\ \/ /\ fs[r.name].current = 0
        /\ fs[r.name].exists
        /\ fs' = [fs EXCEPT ![r.name].current = r.dep]
        /\ tasks' = [tasks EXCEPT ![t] =
              [r EXCEPT !.pc = IF r.kind = "deploy" THEN "upd" ELSE "r_list"]]
     \/ /\ fs' = fs
        /\ tasks' = [tasks EXCEPT ![t] = Thrown(r, "activate")]
  /\ UNCHANGED <<apps, deps, sup, other>>

----------------------------------------------------------------------------
(* The status writes after the activation, in the order of the code.      *)

UpdateStatus(t) ==
  LET r == tasks[t] IN
  /\ r.pc = "upd"
  /\ r.upd # <<>>
  /\ deps[r.upd[1][1]] # NoDeployment
  /\ deps' = updateDeployment(r.upd[1][1], r.upd[1][2], "")
  /\ tasks' = [tasks EXCEPT ![t] =
        [r EXCEPT !.upd = Tail(r.upd),
                  !.pc = IF Tail(r.upd) = <<>> THEN "cur_rd" ELSE "upd"]]
  /\ UNCHANGED <<apps, fs, sup, other>>

(* updateApp(app.id, {currentDeploymentId, status: "stopped"}) in deploy, *)
(* updateApp(appId, {currentDeploymentId}) in rollback.                    *)
CurrentRead(t) ==
  LET r == tasks[t] IN
  /\ r.pc = "cur_rd"
  /\ tasks' = [tasks EXCEPT ![t] =
        IF apps[r.app] = NoApp
          THEN Thrown(r, "store")
          ELSE [r EXCEPT !.pc = "cur_wr", !.rd = apps[r.app]]]
  /\ UNCHANGED <<apps, deps, fs, sup, other>>

(* ... followed by processManager.restartApp(app, currentPath).            *)
CurrentWrite(t) ==
  LET r == tasks[t] IN
  /\ r.pc = "cur_wr"
  /\ apps' = [apps EXCEPT ![r.app] =
        [r.rd EXCEPT !.cur = r.dep,
                     !.status = IF r.kind = "deploy" THEN "stopped" ELSE @]]
  /\ restartApp(t, [r EXCEPT !.rd = NoApp])
  /\ UNCHANGED <<deps, fs, other>>

(* cleanupOldDeployments: of the list read with the default limit, the    *)
(* entries after the first maxDeploymentsPerApp that are not active in    *)
(* that list lose their release directory, one await after the other;     *)
(* the loop ends at the first error, which is logged and dropped.          *)
toDelete(appId) ==
  LET deployments == getDeploymentsByApp(appId, DefaultLimit) IN
  IF Len(deployments) > maxDeployments
    THEN SubSeq(deployments, maxDeployments + 1, Len(deployments))
    ELSE <<>>

(* for (deployment of toDelete) { if (status === "active") continue; ... } *)
notActive(list) ==
  SelectSeq([i \in 1..Len(list) |-> Pair(list[i], deps[list[i]].status)],
            LAMBDA x : x[2] # "active")

(* deleteDeployment: Deno.remove(<app dir>/releases/<id>, recursive).      *)
removeRelease(dir, d) ==
  [fs EXCEPT ![dir].releases = @ \ {d}, ![dir].mains = @ \ {d}]

Cleanup(t) ==
  LET r == tasks[t] IN
  /\ r.pc \in {"d_clean", "d_del"}
  /\ IF r.pc = "d_clean"
       THEN LET list == notActive(toDelete(r.app)) IN
            /\ fs' = fs
            /\ tasks' = [tasks EXCEPT ![t] =
                  IF list = <<>> THEN Finish(r, "ok", "")
                  ELSE [r EXCEPT !.pc = "d_del", !.upd = list]]
       ELSE \E ok \in BOOLEAN :
            /\ fs' = IF ok /\ apps[r.app] # NoApp
                       THEN removeRelease(apps[r.app].name, r.upd[1][1])
                       ELSE fs
            /\ tasks' = [tasks EXCEPT ![t] =
                  IF ~ok \/ Tail(r.upd) = <<>> THEN Finish(r, "ok", "")
                  ELSE [r EXCEPT !.upd = Tail(r.upd)]]
  /\ UNCHANGED <<apps, deps, sup, other>>

(* catch: updateDeployment(deploymentId, {status: "failed", ...})          *)
DeployFail(t) ==
  LET r == tasks[t] IN
  /\ r.pc = "d_fail"
  /\ IF deps[r.dep] = NoDeployment
       THEN /\ deps' = deps
            /\ tasks' = [tasks EXCEPT ![t] = Finish(r, "failed", r.stage)]
       ELSE /\ deps' = updateDeployment(r.dep, "failed", r.stage)
            /\ tasks' = [tasks EXCEPT ![t] = [r EXCEPT !.pc = "d_erd"]]
  /\ UNCHANGED <<apps, fs, sup, other>>

(* catch: updateApp(app.id, {status: "error"}); throw error                *)
DeployErrorRead(t) ==
  LET r == tasks[t] IN
  /\ r.pc = "d_erd"
  /\ tasks' = [tasks EXCEPT ![t] =
        IF apps[r.app] = NoApp
          THEN Finish(r, "failed", r.stage)
          ELSE [r EXCEPT !.pc = "d_ewr", !.rd = apps[r.app]]]
  /\ UNCHANGED <<apps, deps, fs, sup, other>>

DeployErrorWrite(t) ==
  LET r == tasks[t] IN
  /\ r.pc = "d_ewr"
  /\ apps' = [apps EXCEPT ![r.app] = [r.rd EXCEPT !.status = "error"]]
  /\ tasks' = [tasks EXCEPT ![t] =
        Finish([r EXCEPT !.rd = NoApp], "failed", r.stage)]
  /\ UNCHANGED <<deps, fs, sup, other>>

----------------------------------------------------------------------------
(* DeploymentService.rollbackDeployment.                                   *)

(* for (dep of deployments): the target becomes active, every other       *)
(* record that is active in the list becomes inactive, in list order.     *)
rollbackUpdates(d, deployments) ==
  SelectSeq([i \in 1..Len(deployments) |->
               Pair(deployments[i],
                    IF deployments[i] = d THEN "active"
                    ELSE IF deps[deployments[i]].status = "active"
                      THEN "inactive" ELSE "keep")],
            LAMBDA x : x[2] # "keep")

(* POST /:id/deployments/:deploymentId/rollback: the route's getAppById.   *)
BeginRollback(t, a, d) ==
  /\ CanBegin(t)
  /\ CanSpawn
  /\ apps[a] # NoApp
  /\ deps[d] # NoDeployment
  /\ tasks' = [tasks EXCEPT ![t] =
        [NewTask("rollback", a) EXCEPT !.pc = "r_app", !.dep = d]]
  /\ reqs' = reqs - 1
  /\ UNCHANGED <<apps, deps, fs, sup, subIndex, ports, nginx, nextApp,
                 idPool, conc, ext>>

(* app = getAppById(appId); if (!app) throw                                *)
RollbackApp(t) ==
  LET r == tasks[t] IN
  /\ r.pc = "r_app"
  /\ tasks' = [tasks EXCEPT ![t] =
        IF apps[r.app] = NoApp
          THEN Finish(r, "rejected", "noapp")
          ELSE [r EXCEPT !.pc = "r_dep", !.name = apps[r.app].name]]
  /\ UNCHANGED <<apps, deps, fs, sup, other>>

(* deployment = getDeploymentById(id); only an inactive one is accepted    *)
rollbackAcceptsNotActive(deployment) == deployment.status # "active"

rollbackAccepts(deployment) == deployment.status = "inactive"

RollbackDeployment(t) ==
  LET r == tasks[t] IN
  /\ r.pc = "r_dep"
  /\ tasks' = [tasks EXCEPT ![t] =
        IF deps[r.dep] = NoDeployment
          THEN Finish(r, "rejected", "nodeployment")
          ELSE IF rollbackAccepts(deps[r.dep])
            THEN [r EXCEPT !.pc = "act"]
            ELSE Finish(r, "rejected", deps[r.dep].status)]
  /\ UNCHANGED <<apps, deps, fs, sup, other>>

(* deployments = getDeploymentsByApp(appId)                                *)
RollbackList(t) ==
  LET r == tasks[t]
      upd == rollbackUpdates(r.dep, getDeploymentsByApp(r.app, DefaultLimit))
  IN
  /\ r.pc = "r_list"
  /\ tasks' = [tasks EXCEPT ![t] =
        [r EXCEPT !.upd = upd,
                  !.pc = IF upd = <<>> THEN "cur_rd" ELSE "upd"]]
  /\ UNCHANGED <<apps, deps, fs, sup, other>>

----------------------------------------------------------------------------
(* POST / (create application) and DELETE /:id (routes/apps.ts).           *)

CreatesPending ==
  Cardinality({t \in TaskIds : tasks[t].kind = "create"
                                 /\ tasks[t].pc \in {"c_scan", "c_create"}})

(* existingApp = getAppBySubdomain(subdomain); 409 when it is taken.       *)
BeginCreate(t, name, sub) ==
  /\ CanBegin(t)
  /\ (nextApp - 1) + CreatesPending < MaxApps
  /\ tasks' = [tasks EXCEPT ![t] =
        IF subIndex[sub] # 0
          THEN Finish([Idle EXCEPT !.kind = "create", !.name = name,
                                   !.sub = sub], "rejected", "taken")
          ELSE [Idle EXCEPT !.kind = "create", !.pc = "c_scan", !.name = name,
                            !.sub = sub, !.port = startPort]]
  /\ reqs' = reqs - 1
  /\ UNCHANGED <<apps, deps, fs, sup, subIndex, ports, nginx, nextApp,
                 idPool, conc, ext>>

(* getNextAvailablePort giving up one port early.                          *)
CreateScanShort(t) ==
  LET r == tasks[t] IN
  /\ r.pc = "c_scan"
  /\ tasks' = [tasks EXCEPT ![t] =
        IF getPortAssignment(r.port) = 0
          THEN [r EXCEPT !.pc = "c_create"]
          ELSE IF r.port + 1 >= MaxPort
            THEN Finish(r, "failed", "noport")
            ELSE [r EXCEPT !.port = r.port + 1]]
  /\ UNCHANGED <<apps, deps, fs, sup, other>>

(* getNextAvailablePort: one getPortAssignment per candidate port.         *)
CreateScan(t) ==
  LET r == tasks[t] IN
  /\ r.pc = "c_scan"
  /\ tasks' = [tasks EXCEPT ![t] =
        IF getPortAssignment(r.port) = 0
          THEN [r EXCEPT !.pc = "c_create"]
          ELSE IF r.port + 1 > MaxPort
            THEN Finish(r, "failed", "noport")
            ELSE [r EXCEPT !.port = r.port + 1]]
  /\ UNCHANGED <<apps, deps, fs, sup, other>>

(* createApp: one atomic commit that checks the id and the subdomain.      *)
CreateApp(t) ==
  LET r == tasks[t] IN
  /\ r.pc = "c_create"
  /\ nextApp \in AppIds
  /\ IF subIndex[r.sub] # 0
       THEN /\ tasks' = [tasks EXCEPT ![t] = Finish(r, "failed", "conflict")]
            /\ UNCHANGED <<apps, subIndex, nextApp>>
       ELSE /\ apps' = [apps EXCEPT ![nextApp] =
                  [status |-> "stopped", port |-> r.port, cur |-> 0,
                   name |-> r.name, sub |-> r.sub, domains |-> {}]]
            /\ subIndex' = [subIndex EXCEPT ![r.sub] = nextApp]
            /\ nextApp' = nextApp + 1
            /\ tasks' = [tasks EXCEPT ![t] =
                  [r EXCEPT !.pc = "c_assign", !.app = nextApp]]
  /\ UNCHANGED <<deps, fs, sup, ports, nginx, idPool, reqs, conc, ext>>

(* assignPort(port, app.id): kv.set, no check.                             *)
CreateAssign(t) ==
  LET r == tasks[t] IN
  /\ r.pc = "c_assign"
  /\ ports' = assignPort(r.port, r.app)
  /\ tasks' = [tasks EXCEPT ![t] = [r EXCEPT !.pc = "c_nginx"]]
  /\ UNCHANGED <<apps, deps, fs, sup, subIndex, nginx, nextApp, idPool,
                 reqs, conc, ext>>

(* nginxManager.generateAppConfig(app): writes the file and reloads the   *)
(* proxy, or fails.                                                        *)
CreateNginx(t) ==
  LET r == tasks[t] IN
  /\ r.pc = "c_nginx"
  /\ \/ /\ nginx' = nginx \cup {r.app}
        /\ tasks' = [tasks EXCEPT ![t] = Finish(r, "ok", "")]
     \/ /\ nginx' = nginx
        /\ tasks' = [tasks EXCEPT ![t] = Finish(r, "failed", "nginx")]
  /\ UNCHANGED <<apps, deps, fs, sup, subIndex, ports, nextApp, idPool,
                 reqs, conc, ext>>

(* DELETE /:id: getAppById; if (isRunning(appId)) await stopApp(appId)     *)
BeginDelete(t, a) ==
  /\ CanBegin(t)
  /\ apps[a] # NoApp
  /\ LET r == [NewTask("delete", a) EXCEPT !.port = apps[a].port] IN
     IF processes[a] # 0
       THEN KillAndWait(t, r, "delete")
       ELSE /\ tasks' = [tasks EXCEPT ![t] = [r EXCEPT !.pc = "x_nginx"]]
            /\ UNCHANGED sup
  /\ Accept
  /\ UNCHANGED <<apps, deps, fs, idPool>>

(* nginxManager.removeAppConfig(app)                                       *)
DeleteNginx(t) ==
  LET r == tasks[t] IN
  /\ r.pc = "x_nginx"
  /\ \/ /\ nginx' = nginx \ {r.app}
        /\ tasks' = [tasks EXCEPT ![t] = [r EXCEPT !.pc = "x_files"]]
     \/ /\ nginx' = nginx
        /\ tasks' = [tasks EXCEPT ![t] = Finish(r, "failed", "nginx")]
  /\ UNCHANGED <<apps, deps, fs, sup, subIndex, ports, nextApp, idPool,
                 reqs, conc, ext>>

(* fileManager.deleteAppFiles(app.userId, app.name)                        *)
DeleteFiles(t) ==
  LET r == tasks[t] IN
  /\ r.pc = "x_files"
  /\ \/ /\ fs' = [fs EXCEPT ![r.name] = EmptyDir]
        /\ tasks' = [tasks EXCEPT ![t] = [r EXCEPT !.pc = "x_port"]]
     \/ /\ fs[r.name].exists
        /\ fs' = fs
        /\ tasks' = [tasks EXCEPT ![t] = Finish(r, "failed", "files")]
  /\ UNCHANGED <<apps, deps, sup, other>>

(* db.releasePort(app.port): kv.delete, no check.                          *)
DeletePort(t) ==
  LET r == tasks[t] IN
  /\ r.pc = "x_port"
  /\ ports' = releasePort(r.port)
  /\ tasks' = [tasks EXCEPT ![t] = [r EXCEPT !.pc = "x_del"]]
  /\ UNCHANGED <<apps, deps, fs, sup, subIndex, nginx, nextApp, idPool,
                 reqs, conc, ext>>

(* db.deleteApp(appId): the record and its two index entries.              *)
DeleteApp(t) ==
  LET r == tasks[t] IN
  /\ r.pc = "x_del"
  /\ IF apps[r.app] = NoApp
       THEN UNCHANGED <<apps, subIndex>>
       ELSE /\ apps' = [apps EXCEPT ![r.app] = NoApp]
            /\ subIndex' = [subIndex EXCEPT ![apps[r.app].sub] = 0]
  /\ tasks' = [tasks EXCEPT ![t] = Finish(r, "ok", "")]
  /\ UNCHANGED <<deps, fs, sup, ports, nginx, nextApp, idPool, reqs, conc, ext>>

----------------------------------------------------------------------------
(* Log capture (ProcessManager.captureOutput) and the store's log entries. *)

core == <<apps, subIndex, deps, ports, fs, nginx, processes, procs, tasks,
          nextApp, nextPid, idPool, reqs, conc, boot, session,
          maxDeployments,
          startPort,
          sigkill,
          visited,
          journal,
          clock>>

(* lines = text.split("\n").filter(line => line.trim())                   *)
splitLines(chunk) == SelectSeq(chunk, LAMBDA piece : piece # "B")

(* A child writes to one of its pipes.                                     *)
Emit(p, s, chunk) ==
  /\ procs[p].alive
  /\ procs[p].mon = "watch"
  /\ lines > 0
  /\ pipe[p][s] = <<>>
  /\ pipe' = [pipe EXCEPT ![p][s] = chunk]
  /\ emitted' = [emitted EXCEPT ![procs[p].appId] =
                    @ + Len(splitLines(chunk))]
  /\ lines' = lines - 1
  /\ UNCHANGED <<core, logs, cap, clients, casts, wsreqs>>

(* reader.read() returns the chunk; it is decoded and split.               *)
CaptureRead(p, s) ==
  /\ pipe[p][s] # <<>>
  /\ cap[p][s] = 0
  /\ cap' = [cap EXCEPT ![p][s] = Len(splitLines(pipe[p][s]))]
  /\ pipe' = [pipe EXCEPT ![p][s] = <<>>]
  /\ UNCHANGED <<core, logs, emitted, clients, casts, wsreqs, lines>>

(* addLog(logEntry): one kv.set under ["logs", appId, timestamp, id].      *)
addLog(appId) == [logs EXCEPT ![appId] = @ + 1]

(* The body of the loop over the lines: logger, then await db.addLog.      *)
CaptureStore(p, s) ==
  /\ cap[p][s] > 0
  /\ logs' = addLog(procs[p].appId)
  /\ cap' = [cap EXCEPT ![p][s] = @ - 1]
  /\ UNCHANGED <<core, emitted, pipe, clients, casts, wsreqs, lines>>

(* getLogsByApp(appId, limit): the newest `limit` entries, as the numbers *)
(* of the first and the last of them (lo > hi when there is none).        *)
getLogsByApp(appId, limit) ==
  [lo |-> IF logs[appId] > limit THEN logs[appId] - limit + 1 ELSE 1,
   hi |-> logs[appId]]

----------------------------------------------------------------------------
(* The keys of the log entries.  CaptureStore counts the entries of an    *)
(* application; here the entries that the capture loops of the running    *)
(* child of application 1 store are kept with their keys.                  *)

(* v4.generate(): the ids in the order of their strings.                   *)
Uuids == 1..MaxUuid

still == <<apps, subIndex, deps, ports, fs, nginx, processes, procs, tasks,
           nextApp, nextPid, idPool, reqs, conc, boot, logs, emitted, pipe,
           cap, clients, casts, wsreqs, lines, session, maxDeployments,
           startPort, sigkill, visited>>

(* A millisecond passes.                                                   *)
Tick ==
  /\ clock < MaxClock
  /\ clock' = clock + 1
  /\ UNCHANGED <<still, journal>>

(* The loop body of captureOutput for the next line of a stream:           *)
(* {id: v4.generate(), timestamp: new Date(), ...}, then addLog stores it  *)
(* under ["logs", appId, timestamp.getTime(), id].                          *)
StoreEntry(s) ==
  LET n == Cardinality({e \in journal : e.stream = s}) + 1 IN
  /\ processes[1] # 0
  /\ procs[processes[1]].alive
  /\ \E id \in Uuids \ {e.id : e \in journal} :
       journal' = journal \cup
                    {[ts |-> clock, id |-> id, stream |-> s, n |-> n]}
  /\ UNCHANGED <<still, clock>>

(* The order of the keys: by timestamp, then by id.                        *)
keyBefore(e, f) == e.ts < f.ts \/ (e.ts = f.ts /\ e.id < f.id)

RECURSIVE newestFirst(_)
newestFirst(S) ==
  IF S = {} THEN <<>>
  ELSE LET last == CHOOSE e \in S : \A f \in S \ {e} : keyBefore(f, e)
       IN <<last>> \o newestFirst(S \ {last})

(* getLogsByApp(appId, limit): kv.list({prefix: ["logs", appId]}, {limit,  *)
(* reverse: true}), the entries in descending key order.                   *)
listLogs(limit) == Take(newestFirst(journal), limit)

----------------------------------------------------------------------------
(* WebSocketManager (platform/websocket.ts).  A message to a peer is      *)
(* <<type, appId, first entry, last entry>>.                               *)

Welcome == <<"connected", 0, 0, 0>>
Refusal == <<"error", 0, 0, 0>>
HistoryMsg(appId, h) == <<"logs_history", appId, h.lo, h.hi>>
LogMsg(appId, k) == <<"log", appId, k, k>>

(* socket.send: the peer of a closed socket receives nothing.              *)
send(cl, msg) ==
  IF cl.open THEN [cl EXCEPT !.recv = Append(@, msg)] ELSE cl

(* handleConnection: clients.add(client); the welcome message.             *)
Connect(c, u) ==
  /\ clients[c] = NoClient
  /\ clients' = [clients EXCEPT ![c] =
        send([NoClient EXCEPT !.open = TRUE, !.user = u], Welcome)]
  /\ UNCHANGED <<core, logs, emitted, pipe, cap, casts, wsreqs, lines>>

(* socket.onclose / socket.onerror: clients.delete(client).                *)
Close(c) ==
  /\ clients[c].open
  /\ clients' = [clients EXCEPT ![c].open = FALSE]
  /\ UNCHANGED <<core, logs, emitted, pipe, cap, casts, wsreqs, lines>>

(* {type: "subscribe_logs", appId}: subscribeLogs starts and awaits        *)
(* getAppById.  A peer waits for the answer before it subscribes again.   *)
SubscribeMsg(c, a) ==
  /\ clients[c].open
  /\ clients[c].pc = "idle"
  /\ wsreqs > 0
  /\ clients' = [clients EXCEPT ![c].pc = "s_app", ![c].target = a]
  /\ wsreqs' = wsreqs - 1
  /\ UNCHANGED <<core, logs, emitted, pipe, cap, casts, lines>>

(* subscribeLogs after getAppById: refuse, or client.appId = appId and    *)
(* await getLogsByApp.                                                     *)
SubscribeCheck(c) ==
  LET cl == clients[c] IN
  /\ cl.pc = "s_app"
  /\ clients' = [clients EXCEPT ![c] =
        IF apps[cl.target] = NoApp \/ Owner # cl.user
          THEN send([cl EXCEPT !.pc = "idle", !.target = 0], Refusal)
          ELSE [cl EXCEPT !.pc = "s_hist", !.appId = cl.target,
                          !.since = logs[cl.target]]]
  /\ UNCHANGED <<core, logs, emitted, pipe, cap, casts, wsreqs, lines>>

(* subscribeLogs after getLogsByApp(appId, 50): the logs_history message.  *)
SubscribeHistory(c) ==
  LET cl == clients[c] IN
  /\ cl.pc = "s_hist"
  /\ clients' = [clients EXCEPT ![c] =
        send([cl EXCEPT !.pc = "idle", !.target = 0],
             HistoryMsg(cl.target, getLogsByApp(cl.target, HistoryLimit)))]
  /\ UNCHANGED <<core, logs, emitted, pipe, cap, casts, wsreqs, lines>>

(* {type: "unsubscribe_logs"}: client.appId = undefined.                   *)
Unsubscribe(c) ==
  /\ clients[c].open
  /\ wsreqs > 0
  /\ clients' = [clients EXCEPT ![c].appId = 0]
  /\ wsreqs' = wsreqs - 1
  /\ UNCHANGED <<core, logs, emitted, pipe, cap, casts, lines>>

(* The clients broadcastLog sends an entry of the application to.          *)
broadcastTargetsAll(appId) == {c \in ClientIds : clients[c].open}

broadcastTargets(appId) ==
  {c \in ClientIds : clients[c].appId = appId /\ clients[c].open}

(* broadcastLog(log), called with the next entry of an application.        *)
BroadcastLog(a) ==
  /\ casts < MaxCasts
  /\ apps[a] # NoApp
  /\ clients' = [c \in ClientIds |->
        IF c \in broadcastTargets(a)
          THEN send(clients[c], LogMsg(a, logs[a] + casts + 1))
          ELSE clients[c]]
  /\ casts' = casts + 1
  /\ UNCHANGED <<core, logs, emitted, pipe, cap, wsreqs, lines>>

----------------------------------------------------------------------------
(* The platform process (main.ts, platform/server.ts).                     *)

(* The platform process ends (shutdown closes the sockets and the store   *)
(* and calls Deno.exit; it does not stop the children) and is started     *)
(* again: startServer prepares the proxy directories and serves.  The     *)
(* store, the files and the proxy configuration are what they were; the   *)
(* new ProcessManager has an empty table; the handlers, the capture loops *)
(* and the exit watchers of the old process are gone and its sockets are  *)
(* closed; each child of the old process has terminated with it or runs   *)
(* on without a watcher.                                                   *)
PlatformRestart ==
  /\ \E S \in SUBSET {p \in Pids : procs[p].alive} :
       procs' = [p \in Pids |->
         IF procs[p] = NoProcess THEN NoProcess
         ELSE [procs[p] EXCEPT
                 !.alive = p \in S,
                 !.mon = IF @ = "done" THEN @ ELSE "lost",
                 !.rd = NoApp]]
  /\ processes' = [a \in AppIds |-> 0]
  /\ tasks' = [t \in TaskIds |-> Idle]
  /\ boot' = nextPid
  /\ pipe' = [p \in Pids |-> [s \in Streams |-> <<>>]]
  /\ cap' = [p \in Pids |-> [s \in Streams |-> 0]]
  /\ clients' = [c \in ClientIds |->
                   [clients[c] EXCEPT !.open = FALSE, !.pc = "idle"]]
  /\ UNCHANGED <<apps, subIndex, deps, ports, fs, nginx, nextApp, nextPid,
                 idPool, reqs, conc, logs, emitted, casts, wsreqs, lines,
                 session, maxDeployments,
                 startPort,
                 sigkill,
                 visited,
                 journal,
                 clock>>

----------------------------------------------------------------------------
(* POST /:id/domains (routes/apps.ts).                                     *)

(* getAppById; 409 when the application's own list includes the domain;   *)
(* otherwise updatedDomains = [...app.customDomains, domain].              *)
BeginAddDomain(t, a, dom) ==
  /\ CanBegin(t)
  /\ apps[a] # NoApp
  /\ tasks' = [tasks EXCEPT ![t] =
        IF dom \in apps[a].domains
          THEN Finish(NewTask("domain", a), "rejected", "exists")
          ELSE [NewTask("domain", a) EXCEPT
                  !.pc = "m_rd", !.doms = apps[a].domains \cup {dom}]]
  /\ Accept
  /\ UNCHANGED <<apps, deps, fs, sup, idPool>>

(* updateApp(appId, {customDomains: updatedDomains}) reads the record ...  *)
AddDomainRead(t) ==
  LET r == tasks[t] IN
  /\ r.pc = "m_rd"
  /\ tasks' = [tasks EXCEPT ![t] =
        IF apps[r.app] = NoApp
          THEN Finish(r, "failed", "update")
          ELSE [r EXCEPT !.pc = "m_wr", !.rd = apps[r.app]]]
  /\ UNCHANGED <<apps, deps, fs, sup, other>>

(* updateApp with the port among the updates.                              *)
AddDomainWritePort(t) ==
  LET r == tasks[t] IN
  /\ r.pc = "m_wr"
  /\ apps' = [apps EXCEPT ![r.app] =
        [r.rd EXCEPT !.domains = r.doms, !.port = r.rd.port + 1]]
  /\ tasks' = [tasks EXCEPT ![t] = [r EXCEPT !.pc = "m_nginx", !.rd = NoApp]]
  /\ UNCHANGED <<deps, fs, sup, other>>

(* ... and writes it with the list replaced.                               *)
AddDomainWrite(t) ==
  LET r == tasks[t] IN
  /\ r.pc = "m_wr"
  /\ apps' = [apps EXCEPT ![r.app] = [r.rd EXCEPT !.domains = r.doms]]
  /\ tasks' = [tasks EXCEPT ![t] = [r EXCEPT !.pc = "m_nginx", !.rd = NoApp]]
  /\ UNCHANGED <<deps, fs, sup, other>>

(* getAppById; if the record is there, nginxManager.generateAppConfig.     *)
AddDomainNginx(t) ==
  LET r == tasks[t] IN
  /\ r.pc = "m_nginx"
  /\ IF apps[r.app] = NoApp
       THEN /\ nginx' = nginx
            /\ tasks' = [tasks EXCEPT ![t] = Finish(r, "ok", "")]
       ELSE \/ /\ nginx' = nginx \cup {r.app}
               /\ tasks' = [tasks EXCEPT ![t] = Finish(r, "ok", "")]
            \/ /\ nginx' = nginx
               /\ tasks' = [tasks EXCEPT ![t] = Finish(r, "failed", "nginx")]
  /\ UNCHANGED <<apps, deps, fs, sup, subIndex, ports, nextApp, idPool,
                 reqs, conc, ext>>

(* DELETE /:id/domains/:domain: 404 when the application's list does not  *)
(* include the domain; otherwise the list without it is written.           *)
BeginRemoveDomain(t, a, dom) ==
  /\ CanBegin(t)
  /\ apps[a] # NoApp
  /\ tasks' = [tasks EXCEPT ![t] =
        IF dom \notin apps[a].domains
          THEN Finish(NewTask("undomain", a), "rejected", "notfound")
          ELSE [NewTask("undomain", a) EXCEPT
                  !.pc = "m_rd", !.doms = apps[a].domains \ {dom}]]
  /\ Accept
  /\ UNCHANGED <<apps, deps, fs, sup, idPool>>

(* GET /:id/logs: getAppById, getLogsByApp(appId, limit); the entries are *)
(* the response.                                                           *)
ReadLogs(t, a) ==
  /\ CanBegin(t)
  /\ apps[a] # NoApp
  /\ tasks' = [tasks EXCEPT ![t] = Finish(NewTask("logs", a), "ok", "")]
  /\ Accept
  /\ UNCHANGED <<apps, deps, fs, sup, idPool>>

----------------------------------------------------------------------------
(* The ownership check of the routes (routes/apps.ts).                     *)

(* if (app.userId !== user.id) return 403                                  *)
ownsAnyone(user) == TRUE

owns(user) == user = Owner

(* The 403 answer.                                                         *)
Refuse(t, kind, a) ==
  /\ CanBegin(t)
  /\ apps[a] # NoApp
  /\ tasks' = [tasks EXCEPT ![t] =
        Finish(NewTask(kind, a), "rejected", "unauthorized")]
  /\ Accept
  /\ UNCHANGED <<apps, deps, fs, sup, idPool>>

(* PUT /:id with a name: getAppById, validateAppName (the names of the    *)
(* model are valid), then updateApp(appId, {name}).  The directories of   *)
(* the application are not touched.                                        *)
BeginRename(t, a, name) ==
  /\ CanBegin(t)
  /\ apps[a] # NoApp
  /\ tasks' = [tasks EXCEPT ![t] =
        [NewTask("rename", a) EXCEPT !.pc = "u_rd", !.upd = <<name>>]]
  /\ Accept
  /\ UNCHANGED <<apps, deps, fs, sup, idPool>>

(* updateApp reads the record ...                                          *)
RenameRead(t) ==
  LET r == tasks[t] IN
  /\ r.pc = "u_rd"
  /\ tasks' = [tasks EXCEPT ![t] =
        IF apps[r.app] = NoApp
          THEN Finish(r, "failed", "update")
          ELSE [r EXCEPT !.pc = "u_wr", !.rd = apps[r.app]]]
  /\ UNCHANGED <<apps, deps, fs, sup, other>>

(* ... and writes it with the name replaced; the route answers with the   *)
(* record it reads back.                                                   *)
RenameWrite(t) ==
  LET r == tasks[t] IN
  /\ r.pc = "u_wr"
  /\ apps' = [apps EXCEPT ![r.app] = [r.rd EXCEPT !.name = r.upd[1]]]
  /\ tasks' = [tasks EXCEPT ![t] = Finish(r, "ok", "")]
  /\ UNCHANGED <<deps, fs, sup, other>>

----------------------------------------------------------------------------
(* The health-check job (jobs/health-check.ts), run by Deno.cron once a    *)
(* minute; a run that is due while the previous one has not ended is       *)
(* skipped.  The job takes a slot like a request.                          *)

quiet == <<boot, logs, emitted, pipe, cap, clients, casts, wsreqs, lines,
           session, maxDeployments, startPort, sigkill, journal, clock>>

HealthRunning == \E t \in TaskIds : tasks[t].kind = "health" /\ Busy(t)

BeginHealth(t) ==
  /\ CanBegin(t)
  /\ ~HealthRunning
  /\ tasks' = [tasks EXCEPT ![t] = [Idle EXCEPT !.kind = "health",
                                                !.pc = "h_next"]]
  /\ visited' = {}
  /\ reqs' = reqs - 1
  /\ UNCHANGED <<apps, deps, fs, sup, subIndex, ports, nginx, nextApp,
                 idPool, conc, quiet>>

(* for (const [appId, appProcess] of processes): the next entry of the    *)
(* table, in any order; const app = await db.getAppById(appId).            *)
HealthNext(t) ==
  LET r == tasks[t]
      left == {a \in AppIds : processes[a] # 0} \ visited IN
  /\ r.pc = "h_next"
  /\ IF left = {}
       THEN /\ tasks' = [tasks EXCEPT ![t] = Finish(r, "ok", "")]
            /\ visited' = visited
       ELSE \E a \in left :
              /\ tasks' = [tasks EXCEPT ![t] =
                    [r EXCEPT !.pc = "h_get", !.app = a]]
              /\ visited' = visited \cup {a}
  /\ UNCHANGED <<apps, deps, fs, sup, subIndex, ports, nginx, nextApp,
                 idPool, reqs, conc, quiet>>

(* if (!app) { await processManager.stopApp(appId); continue; }; then the *)
(* fetch of http://localhost:<port>/health is sent.                        *)
HealthGet(t) ==
  LET r == tasks[t] IN
  /\ r.pc = "h_get"
  /\ IF apps[r.app] = NoApp
       THEN stopApp(t, r, "health")
       ELSE /\ tasks' = [tasks EXCEPT ![t] =
                  [r EXCEPT !.pc = "h_probe", !.name = apps[r.app].name]]
            /\ UNCHANGED sup
  /\ UNCHANGED <<apps, deps, fs, other>>

(* The fetch returns a response (ok or not: both are only logged), or it  *)
(* throws (refused, timed out after 5000 ms); then                         *)
(* if (!processManager.isRunning(appId)) updateApp(appId, {status:         *)
(* "crashed"}).                                                             *)
HealthProbe(t) ==
  LET r == tasks[t] IN
  /\ r.pc = "h_probe"
  /\ \E answered \in BOOLEAN :
       tasks' = [tasks EXCEPT ![t] =
         IF answered THEN [r EXCEPT !.pc = "h_next"]
         ELSE IF processes[r.app] # 0
           THEN [r EXCEPT !.pc = "h_next", !.stage = "probe"]
           ELSE [r EXCEPT !.pc = "h_rd", !.stage = "probe"]]
  /\ UNCHANGED <<apps, deps, fs, sup, other>>

(* updateApp(appId, {status: "crashed"}) reads the record (an error ends  *)
(* the job in its outer catch block) ...                                   *)
HealthRead(t) ==
  LET r == tasks[t] IN
  /\ r.pc = "h_rd"
  /\ tasks' = [tasks EXCEPT ![t] =
        IF apps[r.app] = NoApp
          THEN Finish(r, "failed", "update")
          ELSE [r EXCEPT !.pc = "h_wr", !.rd = apps[r.app]]]
  /\ UNCHANGED <<apps, deps, fs, sup, other>>

(* ... and writes it with the status replaced.                             *)
HealthWrite(t) ==
  LET r == tasks[t] IN
  /\ r.pc = "h_wr"
  /\ apps' = [apps EXCEPT ![r.app] = [r.rd EXCEPT !.status = "crashed"]]
  /\ tasks' = [tasks EXCEPT ![t] = [r EXCEPT !.pc = "h_next", !.rd = NoApp]]
  /\ UNCHANGED <<deps, fs, sup, other>>

HealthStep(t) ==
  \/ HealthNext(t) \/ HealthGet(t) \/ HealthProbe(t)
  \/ HealthRead(t) \/ HealthWrite(t)

(* A request of the session's user for an application.                     *)
ApiRequest(t) ==
  \/ \E a \in AppIds :
       IF owns(session) THEN BeginStart(t, a) ELSE Refuse(t, "start", a)
  \/ \E a \in AppIds :
       IF owns(session) THEN BeginStop(t, a) ELSE Refuse(t, "stop", a)
  \/ \E a \in AppIds :
       IF owns(session) THEN BeginRestart(t, a) ELSE Refuse(t, "restart", a)
  \/ \E a \in AppIds, d \in DepIds :
       IF owns(session) THEN BeginDeploy(t, a, d) ELSE Refuse(t, "deploy", a)
  \/ \E a \in AppIds, d \in DepIds :
       IF owns(session) THEN BeginRollback(t, a, d)
                        ELSE Refuse(t, "rollback", a)
  \/ \E a \in AppIds :
       IF owns(session) THEN BeginDelete(t, a) ELSE Refuse(t, "delete", a)
  \/ \E a \in AppIds, dom \in Domains :
       IF owns(session) THEN BeginAddDomain(t, a, dom)
                        ELSE Refuse(t, "domain", a)
  \/ \E a \in AppIds, dom \in Domains :
       IF owns(session) THEN BeginRemoveDomain(t, a, dom)
                        ELSE Refuse(t, "undomain", a)
  \/ \E a \in AppIds :
       IF owns(session) THEN ReadLogs(t, a) ELSE Refuse(t, "logs", a)

----------------------------------------------------------------------------
(* The specifications.  Each starts in a state the platform reaches and   *)
(* takes the requests of one part of the API; `conc` is the number of     *)
(* requests in flight at a time and `reqs` the number of requests to come. *)

Application(status, cur) ==
  [status |-> status, port |-> StartPort, cur |-> cur, name |-> "n1",
   sub |-> "s1", domains |-> {}]

(* The platform after construction: an empty store, no files, no child.   *)
Empty ==
  /\ apps = [a \in AppIds |-> NoApp]
  /\ subIndex = [s \in Subdomains |-> 0]
  /\ deps = [d \in DepIds |-> NoDeployment]
  /\ ports = <<>>
  /\ fs = [n \in Names |-> EmptyDir]
  /\ nginx = {}
  /\ processes = [a \in AppIds |-> 0]
  /\ procs = [p \in Pids |-> NoProcess]
  /\ tasks = [t \in TaskIds |-> Idle]
  /\ nextApp = 1
  /\ nextPid = 1
  /\ idPool = 1..MaxNewDeps

(* One application has been created (POST /) and nothing else happened.   *)
Created ==
  /\ subIndex = [s \in Subdomains |-> IF s = "s1" THEN 1 ELSE 0]
  /\ ports = [q \in {StartPort} |-> 1]
  /\ nginx = {1}
  /\ tasks = [t \in TaskIds |-> Idle]
  /\ nextApp = 2

OneApp ==
  /\ Created
  /\ apps = [a \in AppIds |-> IF a = 1 THEN Application("stopped", 0)
                              ELSE NoApp]
  /\ deps = [d \in DepIds |-> NoDeployment]
  /\ fs = [n \in Names |-> EmptyDir]
  /\ processes = [a \in AppIds |-> 0]
  /\ procs = [p \in Pids |-> NoProcess]
  /\ nextPid = 1
  /\ idPool = 1..MaxNewDeps

(* The application has been deployed twice (the second id sorts after the *)
(* first) and runs the second release.                                     *)
Running ==
  /\ Created
  /\ apps = [a \in AppIds |-> IF a = 1 THEN Application("running", 3)
                              ELSE NoApp]
  /\ deps = [d \in DepIds |->
       IF d = 2 THEN [appId |-> 1, version |-> 1, status |-> "inactive",
                      err |-> ""]
       ELSE IF d = 3 THEN [appId |-> 1, version |-> 2, status |-> "active",
                           err |-> ""]
       ELSE NoDeployment]
  /\ fs = [n \in Names |-> IF n = "n1"
              THEN [exists |-> TRUE, releases |-> {2, 3}, mains |-> {2, 3},
                    current |-> 3]
              ELSE EmptyDir]
  /\ processes = [a \in AppIds |-> IF a = 1 THEN 1 ELSE 0]
  /\ procs = [p \in Pids |-> IF p = 1
                THEN [appId |-> 1, rel |-> 3, alive |-> TRUE, asked |-> FALSE,
                      mon |-> "watch", ok |-> FALSE, rd |-> NoApp]
                ELSE NoProcess]
  /\ nextPid = 2
  /\ idPool = {1} \cup 4..(2 + MaxNewDeps)

(* The application has a history of n deployments, with ids 2..n+1.  `act` *)
(* is the active one and was created last; one other deployment failed,   *)
(* and one was being built when the platform was shut down; the rest are  *)
(* inactive.  The application runs the active release (`run`) or has been *)
(* stopped.  A new id sorts before or after the ids of the history.       *)
Min(x, y) == IF x <= y THEN x ELSE y

History(n, act, run) ==
  /\ Created
  /\ apps = [a \in AppIds |->
       IF a = 1 THEN Application(IF run THEN "running" ELSE "stopped", act)
       ELSE NoApp]
  /\ deps = [d \in DepIds |->
       IF d \notin 2..(n + 1) THEN NoDeployment
       ELSE [appId |-> 1,
             version |-> IF d = act THEN Min(n, DefaultLimit + 1)
                         ELSE Min(IF d > act THEN d - 2 ELSE d - 1,
                                  DefaultLimit + 1),
             status |-> IF d = act THEN "active"
                        ELSE IF d = 4 THEN "failed"
                        ELSE IF d = n - 1 THEN "building"
                        ELSE "inactive",
             err |-> IF d = 4 /\ d # act THEN "validate" ELSE ""]]
  /\ fs = [m \in Names |-> IF m = "n1"
              THEN [exists |-> TRUE, releases |-> 2..(n + 1),
                    mains |-> ((2..(n + 1)) \ {4, n - 1}) \cup {act},
                    current |-> act]
              ELSE EmptyDir]
  /\ processes = [a \in AppIds |-> IF a = 1 /\ run THEN 1 ELSE 0]
  /\ procs = [p \in Pids |-> IF p = 1 /\ run
                THEN [appId |-> 1, rel |-> act, alive |-> TRUE,
                      asked |-> FALSE, mon |-> "watch", ok |-> FALSE,
                      rd |-> NoApp]
                ELSE NoProcess]
  /\ nextPid = IF run THEN 2 ELSE 1
  /\ idPool = {1} \cup (n + 2)..(n + MaxNewDeps)

(* The platform process has not been restarted and nothing has been       *)
(* logged; the owner uses the API.                                         *)
Quiet ==
  /\ boot = 1
  /\ logs = [a \in AppIds |-> 0]
  /\ emitted = [a \in AppIds |-> 0]
  /\ pipe = [p \in Pids |-> [s \in Streams |-> <<>>]]
  /\ cap = [p \in Pids |-> [s \in Streams |-> 0]]
  /\ clients = [c \in ClientIds |-> NoClient]
  /\ casts = 0
  /\ wsreqs = 0
  /\ lines = 0
  /\ session = Owner
  /\ startPort = StartPort
  /\ clock = 0
  /\ journal = {}
  /\ visited = {}
  /\ sigkill = {}

(* ... on a platform with the default configuration.                       *)
Fresh == Quiet /\ maxDeployments = MaxDeploymentsPerApp

Init == Empty /\ Fresh /\ conc = MaxTasks /\ reqs = MaxReq
InitPorts == Empty /\ Fresh /\ conc = MaxTasks /\ reqs = MaxReqPorts
InitPortsSerial == Empty /\ Fresh /\ conc = 1 /\ reqs = MaxReqPorts
InitSup == Running /\ Fresh /\ conc = MaxTasks /\ reqs = MaxReqSup
InitSupSerial == Running /\ Fresh /\ conc = 1 /\ reqs = MaxReqSup
InitLife == OneApp /\ Fresh /\ conc = 1 /\ reqs = MaxReq
InitDomains == OneApp /\ Fresh /\ conc = MaxTasks /\ reqs = MaxReqDom
(* The application runs; its children have written n lines so far, all    *)
(* of them stored; no client is connected.                                 *)
InitLogs ==
  /\ Running
  /\ conc = 1
  /\ reqs = 0
  /\ boot = 1
  /\ \E n \in {0, HistoryLimit} :
       logs = [a \in AppIds |-> IF a = 1 THEN n ELSE 0]
  /\ emitted = logs
  /\ pipe = [p \in Pids |-> [s \in Streams |-> <<>>]]
  /\ cap = [p \in Pids |-> [s \in Streams |-> 0]]
  /\ clients = [c \in ClientIds |-> NoClient]
  /\ casts = 0
  /\ wsreqs = MaxWsReq
  /\ lines = MaxLines
  /\ session = Owner
  /\ maxDeployments = MaxDeploymentsPerApp
  /\ startPort = StartPort
  /\ clock = 0
  /\ journal = {}
  /\ visited = {}
  /\ sigkill = {}

(* The application runs.  Either its owner uses the API (the clients that *)
(* were connected have gone), or another user uses the API while clients  *)
(* of both users connect and subscribe and one more entry is broadcast.   *)
InitOwner ==
  /\ Running
  /\ conc = 1
  /\ reqs = MaxReqOwn
  /\ boot = 1
  /\ logs = [a \in AppIds |-> 0]
  /\ emitted = logs
  /\ pipe = [p \in Pids |-> [s \in Streams |-> <<>>]]
  /\ cap = [p \in Pids |-> [s \in Streams |-> 0]]
  /\ lines = 0
  /\ maxDeployments = MaxDeploymentsPerApp
  /\ startPort = StartPort
  /\ clock = 0
  /\ journal = {}
  /\ visited = {}
  /\ sigkill = {}
  /\ \E u \in Users :
       /\ session = u
       /\ IF u = Owner
            THEN /\ clients = [c \in ClientIds |->
                                 [NoClient EXCEPT !.user = Owner]]
                 /\ casts = MaxCasts
                 /\ wsreqs = 0
            ELSE /\ clients = [c \in ClientIds |-> NoClient]
                 /\ casts = MaxCasts - 1
                 /\ wsreqs = MaxWsOwn
InitRestart == Running /\ Fresh /\ conc = 1 /\ reqs = MaxReqSup
InitDelete == Running /\ Fresh /\ conc = 1 /\ reqs = MaxReqPorts
(* Two applications of one owner.  The first runs its second release;    *)
(* the second has been created under another subdomain, with another name *)
(* or with the same name (POST / tests the subdomain only), and either    *)
(* has not been deployed or, under its own name, has been deployed twice  *)
(* and stopped.                                                            *)
TwoApps(name2, deployed) ==
  /\ apps = [a \in AppIds |->
       IF a = 1 THEN Application("running", 3)
       ELSE IF a = 2
         THEN [status |-> "stopped", port |-> StartPort + 1,
               cur |-> IF deployed THEN 5 ELSE 0, name |-> name2,
               sub |-> "s2", domains |-> {}]
       ELSE NoApp]
  /\ subIndex = [x \in Subdomains |-> IF x = "s1" THEN 1 ELSE 2]
  /\ ports = [q \in {StartPort, StartPort + 1} |-> q - StartPort + 1]
  /\ nginx = {1, 2}
  /\ tasks = [t \in TaskIds |-> Idle]
  /\ nextApp = 3
  /\ deps = [d \in DepIds |->
       IF d \in {2, 3}
         THEN [appId |-> 1, version |-> d - 1,
               status |-> IF d = 3 THEN "active" ELSE "inactive", err |-> ""]
       ELSE IF deployed /\ d \in {4, 5}
         THEN [appId |-> 2, version |-> d - 3,
               status |-> IF d = 5 THEN "active" ELSE "inactive", err |-> ""]
       ELSE NoDeployment]
  /\ fs = [n \in Names |->
       IF n = "n1"
         THEN [exists |-> TRUE, releases |-> {2, 3}, mains |-> {2, 3},
               current |-> 3]
       ELSE IF deployed
         THEN [exists |-> TRUE, releases |-> {4, 5}, mains |-> {4, 5},
               current |-> 5]
       ELSE EmptyDir]
  /\ processes = [a \in AppIds |-> IF a = 1 THEN 1 ELSE 0]
  /\ procs = [p \in Pids |-> IF p = 1
                THEN [appId |-> 1, rel |-> 3, alive |-> TRUE, asked |-> FALSE,
                      mon |-> "watch", ok |-> FALSE, rd |-> NoApp]
                ELSE NoProcess]
  /\ nextPid = 2
  /\ idPool = {1} \cup 6..(4 + MaxNewDeps)

InitCross ==
  /\ \E in \in {<<"n2", TRUE>>, <<"n2", FALSE>>, <<"n1", FALSE>>} :
       TwoApps(in[1], in[2])
  /\ Fresh
  /\ conc = 1
  /\ reqs = MaxReqCross

(* An application that has just been created receives its first deploy   *)
(* and rollback requests, one after the other.                             *)
InitFirst == OneApp /\ Fresh /\ conc = 1 /\ reqs = MaxReqFirst

(* A running application receives deploy and rollback requests, one after *)
(* the other.                                                              *)
InitBuild == Running /\ Fresh /\ conc = 1 /\ reqs = MaxReqHist

(* A running application receives requests that change its list of       *)
(* custom domains, one after the other.                                    *)
InitUpdate == Running /\ Fresh /\ conc = 1 /\ reqs = MaxReqUpd

(* A running application on a platform configured with either number of  *)
(* deployments to keep receives deploy and rollback requests, one after   *)
(* the other.                                                              *)
InitRetain ==
  /\ Running
  /\ Quiet
  /\ maxDeployments \in Caps
  /\ conc = 1
  /\ reqs = MaxReqRetain

(* The deploy of a third release (id 4) of the running application has    *)
(* restarted the application and is about to call cleanupOldDeployments;  *)
(* further requests are handled while it runs.                             *)
Deployed ==
  /\ subIndex = [s \in Subdomains |-> IF s = "s1" THEN 1 ELSE 0]
  /\ ports = [q \in {StartPort} |-> 1]
  /\ nginx = {1}
  /\ nextApp = 2
  /\ tasks = [t \in TaskIds |->
       IF t = 1
         THEN [Idle EXCEPT
                 !.kind = "deploy", !.pc = "d_clean", !.app = 1,
                 !.name = "n1", !.dep = 4, !.ctx = "restart", !.spawned = 2,
                 !.built = TRUE, !.ver = 3,
                 !.pre = [cur |-> 3, link |-> 3, proc |-> 1, active |-> {3},
                          status |-> "running",
                          deps |-> [d \in DepIds |->
                            IF d \in {2, 3}
                              THEN [appId |-> 1, version |-> d - 1,
                                    status |-> IF d = 3 THEN "active"
                                               ELSE "inactive",
                                    err |-> ""]
                            ELSE NoDeployment]]]
       ELSE Idle]
  /\ apps = [a \in AppIds |-> IF a = 1 THEN Application("running", 4)
                              ELSE NoApp]
  /\ deps = [d \in DepIds |->
       IF d \in {2, 3, 4}
         THEN [appId |-> 1, version |-> d - 1,
               status |-> IF d = 4 THEN "active" ELSE "inactive", err |-> ""]
       ELSE NoDeployment]
  /\ fs = [n \in Names |-> IF n = "n1"
              THEN [exists |-> TRUE, releases |-> {2, 3, 4},
                    mains |-> {2, 3, 4}, current |-> 4]
              ELSE EmptyDir]
  /\ processes = [a \in AppIds |-> IF a = 1 THEN 2 ELSE 0]
  /\ procs = [p \in Pids |->
       IF p = 1 THEN [appId |-> 1, rel |-> 3, alive |-> FALSE, asked |-> TRUE,
                      mon |-> "done", ok |-> FALSE, rd |-> NoApp]
       ELSE IF p = 2 THEN [appId |-> 1, rel |-> 4, alive |-> TRUE,
                           asked |-> FALSE, mon |-> "watch", ok |-> FALSE,
                           rd |-> NoApp]
       ELSE NoProcess]
  /\ nextPid = 3
  /\ idPool = {1} \cup 5..(2 + MaxNewDeps)

InitRetainRace ==
  /\ Deployed
  /\ Quiet
  /\ maxDeployments \in Caps
  /\ conc = MaxTasks
  /\ reqs = MaxReqHist

InitHistory ==
  /\ \E n \in {MaxPrior - 1, MaxPrior} : \E act \in {2, n + 1} :
       \E run \in BOOLEAN : History(n, act, run)
  /\ Fresh
  /\ conc = 1
  /\ reqs = MaxReqHist

(* The last ports of the range, any of them assigned, and a start port    *)
(* among them; the applications that hold the ports are not part of the   *)
(* state.                                                                  *)
PortWindow == (MaxPort - MaxScan + 1)..MaxPort

InitScan ==
  /\ apps = [a \in AppIds |-> NoApp]
  /\ subIndex = [s \in Subdomains |-> 0]
  /\ deps = [d \in DepIds |-> NoDeployment]
  /\ \E taken \in SUBSET PortWindow : ports = [q \in taken |-> MaxApps + 1]
  /\ fs = [n \in Names |-> EmptyDir]
  /\ nginx = {}
  /\ processes = [a \in AppIds |-> 0]
  /\ procs = [p \in Pids |-> NoProcess]
  /\ tasks = [t \in TaskIds |-> Idle]
  /\ nextApp = 1
  /\ nextPid = 1
  /\ idPool = 1..MaxNewDeps
  /\ boot = 1
  /\ logs = [a \in AppIds |-> 0]
  /\ emitted = [a \in AppIds |-> 0]
  /\ pipe = [p \in Pids |-> [s \in Streams |-> <<>>]]
  /\ cap = [p \in Pids |-> [s \in Streams |-> 0]]
  /\ clients = [c \in ClientIds |-> NoClient]
  /\ casts = 0
  /\ wsreqs = 0
  /\ lines = 0
  /\ session = Owner
  /\ maxDeployments = MaxDeploymentsPerApp
  /\ startPort \in PortWindow
  /\ sigkill = {}
  /\ visited = {}
  /\ journal = {}
  /\ clock = 0
  /\ conc = 1
  /\ reqs = 1

InitGrace == Running /\ Fresh /\ conc = 1 /\ reqs = MaxReqGrace

(* The child of the running application exited on its own; a start       *)
(* request spawned a second child while a delete request, which found no  *)
(* entry in the table, removed the configuration, the files, the port and *)
(* the record: the table has an entry for an application without record.  *)
Orphaned ==
  /\ apps = [a \in AppIds |-> NoApp]
  /\ subIndex = [s \in Subdomains |-> 0]
  /\ deps = [d \in DepIds |->
       IF d = 2 THEN [appId |-> 1, version |-> 1, status |-> "inactive",
                      err |-> ""]
       ELSE IF d = 3 THEN [appId |-> 1, version |-> 2, status |-> "active",
                           err |-> ""]
       ELSE NoDeployment]
  /\ ports = <<>>
  /\ fs = [n \in Names |-> EmptyDir]
  /\ nginx = {}
  /\ processes = [a \in AppIds |-> IF a = 1 THEN 2 ELSE 0]
  /\ procs = [p \in Pids |->
       IF p = 1 THEN [appId |-> 1, rel |-> 3, alive |-> FALSE,
                      asked |-> FALSE, mon |-> "rd", ok |-> FALSE,
                      rd |-> NoApp]
       ELSE IF p = 2 THEN [appId |-> 1, rel |-> 3, alive |-> TRUE,
                           asked |-> FALSE, mon |-> "watch", ok |-> FALSE,
                           rd |-> NoApp]
       ELSE NoProcess]
  /\ tasks = [t \in TaskIds |->
       IF t = 1 THEN [Idle EXCEPT !.kind = "delete", !.pc = "done",
                                  !.app = 1, !.name = "n1",
                                  !.port = StartPort, !.res = "ok"]
       ELSE IF t = 2 THEN [Idle EXCEPT !.kind = "start", !.pc = "done",
                                       !.app = 1, !.name = "n1",
                                       !.spawned = 2, !.res = "ok"]
       ELSE Idle]
  /\ nextApp = 2
  /\ nextPid = 3
  /\ idPool = {1} \cup 4..(2 + MaxNewDeps)

InitHealth ==
  /\ Running \/ Orphaned
  /\ Fresh
  /\ conc = MaxTasks
  /\ reqs = MaxReqHealth

InitJournal == Running /\ Fresh /\ conc = 1 /\ reqs = 0

InitRename == Running /\ Fresh /\ conc = 1 /\ reqs = MaxReqRename

InitRouting ==
  /\ Running
  /\ Fresh
  /\ conc = 1
  /\ reqs = MaxReqRoute

PortRequest(t) ==
  \/ \E in \in CreateInputs : BeginCreate(t, in[1], in[2])
  \/ \E a \in AppIds : BeginDelete(t, a)

PortStep(t) ==
  \/ CreateScan(t) \/ CreateApp(t) \/ CreateAssign(t) \/ CreateNginx(t)
  \/ DeleteNginx(t) \/ DeleteFiles(t) \/ DeletePort(t) \/ DeleteApp(t)

SupRequest(t) ==
  \/ \E a \in AppIds : BeginStart(t, a)
  \/ \E a \in AppIds : BeginStop(t, a)
  \/ \E a \in AppIds : BeginRestart(t, a)

SupStep(t) ==
  \/ StopRead(t) \/ StopWrite(t)
  \/ StartRead(t) \/ StartWrite(t)
  \/ StartErrRead(t) \/ StartErrWrite(t)

RollbackRequest(t) == \E a \in AppIds, d \in DepIds : BeginRollback(t, a, d)

DeployRequest(t) ==
  \/ \E a \in AppIds, d \in DepIds : BeginDeploy(t, a, d)
  \/ RollbackRequest(t)

(* The steps of rollbackDeployment, and the steps it shares with deployApp.*)
RollbackStep(t) ==
  \/ RollbackApp(t) \/ RollbackDeployment(t) \/ RollbackList(t)
  \/ ActivateExists(t) \/ ActivateRemove(t) \/ ActivateSymlink(t)
  \/ UpdateStatus(t) \/ CurrentRead(t) \/ CurrentWrite(t)

DeployStep(t) ==
  \/ DeployList(t) \/ DeployCreate(t)
  \/ DeployBuildingRead(t) \/ DeployBuildingWrite(t)
  \/ \E art \in Artifacts : Materialize(t, art)
  \/ Cleanup(t)
  \/ DeployFail(t) \/ DeployErrorRead(t) \/ DeployErrorWrite(t)
  \/ RollbackStep(t)

Stopped(p) ==
  \/ \E success \in BOOLEAN : Exit(p, success)
  \/ MonitorRead(p)
  \/ MonitorWrite(p)

Crashed(p) == \E success \in BOOLEAN : Crash(p, success)

(* Create and delete requests.                                             *)
NextPorts ==
  \/ \E t \in TaskIds : PortRequest(t)
  \/ \E t \in TaskIds : PortStep(t)

DomainRequest(t) == \E a \in AppIds, dom \in Domains : BeginAddDomain(t, a, dom)

DomainStep(t) == AddDomainRead(t) \/ AddDomainWrite(t) \/ AddDomainNginx(t)

CreateRequest(t) == \E in \in CreateInputs : BeginCreate(t, in[1], in[2])

CreateStep(t) ==
  CreateScan(t) \/ CreateApp(t) \/ CreateAssign(t) \/ CreateNginx(t)

(* Create-app and add-domain requests.                                     *)
NextDomains ==
  \/ \E t \in TaskIds : CreateRequest(t)
  \/ \E t \in TaskIds : CreateStep(t)
  \/ \E t \in TaskIds : DomainRequest(t)
  \/ \E t \in TaskIds : DomainStep(t)

(* Create and delete requests for a platform with a running application:  *)
(* the delete route stops the child, whose exit watcher runs as well.      *)
NextDelete ==
  \/ \E t \in TaskIds : PortRequest(t)
  \/ \E t \in TaskIds : PortStep(t)
  \/ \E t \in TaskIds : StopRead(t) \/ StopWrite(t)
  \/ \E p \in Pids : Stopped(p)
  \/ \E p \in Pids : Crashed(p)

ClientStep(c) ==
  \/ \E u \in Users : Connect(c, u)
  \/ Close(c)
  \/ \E a \in AppIds : SubscribeMsg(c, a)
  \/ SubscribeCheck(c)
  \/ SubscribeHistory(c)
  \/ Unsubscribe(c)

CaptureStep(p, s) ==
  \/ \E chunk \in Chunks : Emit(p, s, chunk)
  \/ CaptureRead(p, s)
  \/ CaptureStore(p, s)

(* The log pipeline as the platform runs it: the capture loops store the  *)
(* lines of the children; clients connect and subscribe.                   *)
NextLogs ==
  \/ \E c \in ClientIds : ClientStep(c)
  \/ \E p \in Pids, s \in Streams : CaptureStep(p, s)

(* The WebSocketManager and a caller of broadcastLog.                      *)
NextBroadcast ==
  \/ \E c \in ClientIds : ClientStep(c)
  \/ \E a \in AppIds : BroadcastLog(a)

DeleteStep(t) ==
  DeleteNginx(t) \/ DeleteFiles(t) \/ DeletePort(t) \/ DeleteApp(t)

(* The requests for an application, by its owner or by another user, and  *)
(* the log subscriptions.                                                  *)
NextOwner ==
  \/ \E t \in TaskIds : ApiRequest(t)
  \/ \E t \in TaskIds : SupStep(t)
  \/ \E t \in TaskIds : DeployStep(t)
  \/ \E t \in TaskIds : DeleteStep(t)
  \/ \E t \in TaskIds : DomainStep(t)
  \/ \E p \in Pids : Stopped(p)
  \/ \E c \in ClientIds : ClientStep(c)
  \/ \E a \in AppIds : BroadcastLog(a)

(* Start, stop and restart requests, and restarts of the platform.        *)
NextRestart ==
  \/ \E t \in TaskIds : SupRequest(t)
  \/ \E t \in TaskIds : SupStep(t)
  \/ \E p \in Pids : Stopped(p)
  \/ \E p \in Pids : Crashed(p)
  \/ PlatformRestart

(* Start, stop and restart requests; children may exit on their own.       *)
NextSup ==
  \/ \E t \in TaskIds : SupRequest(t)
  \/ \E t \in TaskIds : SupStep(t)
  \/ \E p \in Pids : Stopped(p)
  \/ \E p \in Pids : Crashed(p)

(* The lifecycle of an application: deploy, rollback, start, stop, restart.*)
NextLife ==
  \/ \E t \in TaskIds : SupRequest(t)
  \/ \E t \in TaskIds : DeployRequest(t)
  \/ \E t \in TaskIds : SupStep(t)
  \/ \E t \in TaskIds : DeployStep(t)
  \/ \E p \in Pids : Stopped(p)

(* Deploy and rollback requests.                                           *)
NextDeploy ==
  \/ \E t \in TaskIds : DeployRequest(t)
  \/ \E t \in TaskIds : SupStep(t)
  \/ \E t \in TaskIds : DeployStep(t)
  \/ \E p \in Pids : Stopped(p)

(* Deploy, rollback and delete requests on two applications.              *)
NextCross ==
  \/ \E t \in TaskIds : DeployRequest(t)
  \/ \E t \in TaskIds, a \in AppIds : BeginDelete(t, a)
  \/ \E t \in TaskIds : SupStep(t)
  \/ \E t \in TaskIds : DeployStep(t)
  \/ \E t \in TaskIds : DeleteStep(t)
  \/ \E p \in Pids : Stopped(p)

(* Requests that add or remove a custom domain, while the child exits on *)
(* its own and its exit watcher records the exit.                          *)
NextUpdate ==
  \/ \E t \in TaskIds : DomainRequest(t)
  \/ \E t \in TaskIds, a \in AppIds, dom \in Domains :
       BeginRemoveDomain(t, a, dom)
  \/ \E t \in TaskIds : DomainStep(t)
  \/ \E p \in Pids : Crashed(p)
  \/ \E p \in Pids : MonitorRead(p) \/ MonitorWrite(p)

(* Rollback requests while a deploy is cleaning up.                       *)
NextRetainRace ==
  \/ \E t \in TaskIds : RollbackRequest(t)
  \/ \E t \in TaskIds : SupStep(t)
  \/ \E t \in TaskIds : RollbackStep(t)
  \/ \E t \in TaskIds : Cleanup(t)
  \/ \E p \in Pids : Stopped(p)

(* Rollback requests.                                                      *)
NextRollback ==
  \/ \E t \in TaskIds : RollbackRequest(t)
  \/ \E t \in TaskIds : SupStep(t)
  \/ \E t \in TaskIds : RollbackStep(t)
  \/ \E p \in Pids : Stopped(p)

(* Start, stop and restart requests with the grace timer of stopApp; the *)
(* children may ignore SIGTERM.                                            *)
NextGrace ==
  \/ \E t \in TaskIds : SupRequest(t)
  \/ \E t \in TaskIds : SupStep(t)
  \/ \E t \in TaskIds : GraceTimer(t)
  \/ \E p \in Pids : Stopped(p)
  \/ \E p \in Pids : Crashed(p)

(* The store answers, the timers fire unless cleared, and a child that was *)
(* sent SIGKILL terminates.                                                *)
FairGrace ==
  /\ \A t \in TaskIds : WF_vars(SupStep(t))
  /\ \A t \in TaskIds : WF_vars(GraceTimer(t))
  /\ \A p \in Pids : WF_vars(ExitKilled(p))

(* Runs of the health-check job while applications are started and        *)
(* deleted and their children exit.                                        *)
NextHealth ==
  \/ \E t \in TaskIds : BeginHealth(t)
  \/ \E t \in TaskIds : HealthStep(t)
  \/ \E t \in TaskIds, a \in AppIds : BeginStart(t, a)
  \/ \E t \in TaskIds, a \in AppIds : BeginDelete(t, a)
  \/ \E t \in TaskIds : SupStep(t)
  \/ \E t \in TaskIds : DeleteStep(t)
  \/ \E p \in Pids : Stopped(p)
  \/ \E p \in Pids : Crashed(p)

(* The capture loops of the running child store its lines.                *)
NextJournal ==
  \/ Tick
  \/ \E s \in Streams : StoreEntry(s)

(* Requests that rename an application, and start, stop and restart      *)
(* requests.                                                               *)
NextRename ==
  \/ \E t \in TaskIds, a \in AppIds, name \in Names : BeginRename(t, a, name)
  \/ \E t \in TaskIds : RenameRead(t) \/ RenameWrite(t)
  \/ \E t \in TaskIds : SupRequest(t)
  \/ \E t \in TaskIds : SupStep(t)
  \/ \E p \in Pids : Stopped(p)

(* A create request up to the return of getNextAvailablePort.             *)
NextScan ==
  \/ \E t \in TaskIds : CreateRequest(t)
  \/ \E t \in TaskIds : CreateScan(t)

(* Every request that creates, changes, runs or deletes an application.   *)
NextRouting ==
  \/ \E t \in TaskIds : CreateRequest(t)
  \/ \E t \in TaskIds : CreateStep(t)
  \/ \E t \in TaskIds : SupRequest(t)
  \/ \E t \in TaskIds : DeployRequest(t)
  \/ \E t \in TaskIds, a \in AppIds : BeginDelete(t, a)
  \/ \E t \in TaskIds : DomainRequest(t)
  \/ \E t \in TaskIds, a \in AppIds, dom \in Domains :
       BeginRemoveDomain(t, a, dom)
  \/ \E t \in TaskIds : SupStep(t)
  \/ \E t \in TaskIds : DeployStep(t)
  \/ \E t \in TaskIds : DeleteStep(t)
  \/ \E t \in TaskIds : DomainStep(t)
  \/ \E p \in Pids : Stopped(p)

(* Every request.                                                          *)
Next ==
  \/ \E t \in TaskIds : PortRequest(t)
  \/ \E t \in TaskIds : PortStep(t)
  \/ NextLife
  \/ \E p \in Pids : Crashed(p)

Spec == Init /\ [][Next]_vars
SpecPorts == InitPorts /\ [][NextPorts]_vars
SpecPortsSerial == InitPortsSerial /\ [][NextPorts]_vars
SpecSup == InitSup /\ [][NextSup]_vars
SpecSupSerial == InitSupSerial /\ [][NextSup]_vars
SpecLife == InitLife /\ [][NextLife]_vars
SpecDomains == InitDomains /\ [][NextDomains]_vars
SpecRestart == InitRestart /\ [][NextRestart]_vars
SpecLogs == InitLogs /\ [][NextLogs]_vars
SpecBroadcast == InitLogs /\ [][NextBroadcast]_vars
SpecOwner == InitOwner /\ [][NextOwner]_vars
SpecCross == InitCross /\ [][NextCross]_vars
SpecFirst == InitFirst /\ [][NextDeploy]_vars
SpecBuild == InitBuild /\ [][NextDeploy]_vars
SpecUpdate == InitUpdate /\ [][NextUpdate]_vars
SpecRetain == InitRetain /\ [][NextDeploy]_vars
SpecRetainRace == InitRetainRace /\ [][NextRetainRace]_vars
SpecGrace == InitGrace /\ [][NextGrace]_vars /\ FairGrace
SpecHealth == InitHealth /\ [][NextHealth]_vars
SpecJournal == InitJournal /\ [][NextJournal]_vars
SpecRename == InitRename /\ [][NextRename]_vars
SpecScan == InitScan /\ [][NextScan]_vars
SpecRouting == InitRouting /\ [][NextRouting]_vars
SpecDelete == InitDelete /\ [][NextDelete]_vars
SpecHistory == InitHistory /\ [][NextDeploy]_vars
SpecRollback == InitHistory /\ [][NextRollback]_vars

----------------------------------------------------------------------------
(* The claims.                                                             *)

Quiescent ==
  /\ \A t \in TaskIds : ~Busy(t)
  /\ \A p \in Pids : procs[p].mon \notin {"rd", "wr"}

LiveChildren(a) == {p \in Pids : procs[p].alive /\ procs[p].appId = a}

DeployFailedAt(t, stages) ==
  /\ tasks[t].kind = "deploy"
  /\ tasks[t].pc = "done"
  /\ tasks[t].res = "failed"
  /\ tasks[t].stage \in stages

(* C1: in every reachable state, the states inside deployApp and          *)
(* rollbackDeployment included, an application has at most one deployment *)
(* record with status `active`.                                            *)
C1_AtMostOneActive ==
  \A a \in AppIds : Cardinality(ActiveDeployments(a)) <= 1

(* C2: after a deployApp that failed at extraction, validation or         *)
(* activation, the previously active deployment is still active, the      *)
(* currentDeploymentId, the `current` link and the process-table entry    *)
(* are what they were, and the deployment records differ from before by   *)
(* one new record, which is `failed` and carries the error message.       *)
C2_FailedDeployChangesNothing ==
  \A t \in TaskIds :
    DeployFailedAt(t, {"extract", "validate", "activate"}) =>
      LET r == tasks[t] IN
      /\ ActiveDeployments(r.app) = r.pre.active
      /\ apps[r.app].cur = r.pre.cur
      /\ fs[r.name].current = r.pre.link
      /\ processes[r.app] = r.pre.proc
      /\ \A d \in DepIds \ {r.dep} : deps[d] = r.pre.deps[d]
      /\ r.pre.deps[r.dep] = NoDeployment
      /\ deps[r.dep].status = "failed"
      /\ deps[r.dep].err # ""

(* C3: after a successful deployApp on an application with deployments,   *)
(* the new deployment is the only active one, the deployment that was     *)
(* active before is inactive, currentDeploymentId is the new deployment,  *)
(* the status went through `building` and is `running`, and the process   *)
(* was started from the new release.                                       *)
C3_SuccessfulDeploy ==
  \A t \in TaskIds :
    LET r == tasks[t] IN
    (r.kind = "deploy" /\ r.pc = "done" /\ r.res = "ok") =>
      /\ ActiveDeployments(r.app) = {r.dep}
      /\ \A d \in r.pre.active : deps[d].status = "inactive"
      /\ apps[r.app].cur = r.dep
      /\ r.built
      /\ apps[r.app].status = "running"
      /\ r.spawned # 0
      /\ procs[r.spawned].rel = r.dep

(* C4: a rollbackDeployment to an inactive deployment d ends with d       *)
(* active, the formerly active deployment inactive, currentDeploymentId   *)
(* = d, the `current` link naming d's release directory, which exists,    *)
(* and the process restarted from it.                                      *)
C4_RollbackToInactive ==
  \A t \in TaskIds :
    LET r == tasks[t] IN
    (r.kind = "rollback" /\ r.pc = "done" /\ r.res = "ok") =>
      /\ r.pre.deps[r.dep].status = "inactive"
      /\ deps[r.dep].status = "active"
      /\ \A d \in r.pre.active \ {r.dep} : deps[d].status = "inactive"
      /\ apps[r.app].cur = r.dep
      /\ fs[r.name].current = r.dep
      /\ r.dep \in fs[r.name].releases
      /\ r.spawned # 0
      /\ procs[r.spawned].rel = r.dep

(* C5: a rollbackDeployment whose target is active, building, failed or   *)
(* pending is rejected, and after it no deployment record, no             *)
(* currentDeploymentId, no `current` link and no process-table entry      *)
(* differs from what the request found.                                    *)
C5_RollbackRejected ==
  \A t \in TaskIds :
    LET r == tasks[t] IN
    (/\ r.kind = "rollback"
     /\ r.pc \notin {"r_app", "r_dep"}
     /\ r.pre.deps[r.dep].status \in {"active", "building", "failed", "pending"})
    =>
      /\ r.pc = "done"
      /\ r.res = "rejected"
      /\ deps = r.pre.deps
      /\ apps[r.app].cur = r.pre.cur
      /\ fs[r.name].current = r.pre.link
      /\ processes[r.app] = r.pre.proc

C5_Witness ==
  \E t \in TaskIds :
    /\ tasks[t].kind = "rollback"
    /\ tasks[t].pc = "done"
    /\ tasks[t].res = "rejected"
    /\ tasks[t].stage = "active"
    /\ tasks[t].pre.proc # 0
    /\ processes[tasks[t].app] = tasks[t].pre.proc

(* C6: create requests that run concurrently obtain different ports: no   *)
(* two of the applications they created have the same port.               *)
C6_ConcurrentCreatesDistinctPorts ==
  \A t, u \in TaskIds :
    (/\ t # u
     /\ tasks[t].kind = "create" /\ tasks[u].kind = "create"
     /\ tasks[t].app # 0 /\ tasks[u].app # 0
     /\ apps[tasks[t].app] # NoApp /\ apps[tasks[u].app] # NoApp)
    => tasks[t].port # tasks[u].port

C8_OneLiveChild ==
  \A p \in Pids : procs[p].alive => processes[procs[p].appId] = p

(* C9: lifecycle requests on one application that run concurrently leave  *)
(* what some one-after-the-other run of them leaves: once they are all    *)
(* answered, the application has no live child, or one, which is its      *)
(* process-table entry.                                                    *)
C9_OutcomeOfSomeSerialRun ==
  Quiescent =>
    \A a \in AppIds :
      /\ Cardinality(LiveChildren(a)) <= 1
      /\ LiveChildren(a) = {processes[a]} \ {0}

(* C10: when a process exits without stopApp having been called for it,   *)
(* the process-table entry of its application is removed and the status   *)
(* that the exit watcher persists is `crashed`, whatever the exit code.   *)
C10_UnaskedExitIsCrashed ==
  [][\A p \in Pids :
       /\ (procs[p].alive /\ ~procs[p].asked /\ ~procs'[p].alive)
            => processes'[procs[p].appId] = 0
       /\ (~procs[p].asked /\ procs[p].mon = "wr" /\ procs'[p].mon = "done")
            => apps'[procs[p].appId].status = "crashed"]_vars

(* C11: stopApp for an application without an entry in the process table  *)
(* returns without error and changes neither the table nor the persisted  *)
(* application record: a stop request that arrives when the application   *)
(* has no entry is answered at once with success, and the step leaves     *)
(* processes, procs and apps as they were.                                 *)
C11_StopWithoutEntryIsNoOp ==
  [][\A t \in TaskIds :
       ( /\ CanBegin(t)
         /\ reqs' = reqs - 1
         /\ tasks'[t].kind = "stop"
         /\ processes[tasks'[t].app] = 0 )
       => /\ tasks'[t].pc = "done"
          /\ tasks'[t].res = "ok"
          /\ processes' = processes
          /\ procs' = procs
          /\ apps' = apps]_vars

(* A stop request was answered with success although no child was ever    *)
(* asked to stop: the child had exited on its own before the request.      *)
C11_Witness ==
  \E t \in TaskIds :
    /\ tasks[t].kind = "stop"
    /\ tasks[t].pc = "done"
    /\ tasks[t].res = "ok"
    /\ processes[tasks[t].app] = 0
    /\ \A p \in Pids : ~procs[p].asked
    /\ \E p \in Pids : procs[p].appId = tasks[t].app /\ ~procs[p].alive

(* C12: deleting an application whose process is running stops the        *)
(* process before anything else (while the delete request waits for the   *)
(* child, the routing configuration, the port assignment and the record   *)
(* are all still there; past the wait the application has no             *)
(* table entry and no live child), and when the request has completed the *)
(* application has no table entry, no routing configuration and its port  *)
(* has no assignment; an allocation skips only assigned ports, so the     *)
(* next one that reaches the released port returns it.                     *)
C12_DeleteStopsFirstAndReleases ==
  /\ \A t \in TaskIds : tasks[t].kind = "delete" =>
       LET r == tasks[t] IN
       /\ r.pc = "stop_wait" =>
            /\ r.app \in nginx
            /\ getPortAssignment(r.port) = r.app
            /\ apps[r.app] # NoApp
       /\ r.pc # "stop_wait" =>
            /\ processes[r.app] = 0
            /\ LiveChildren(r.app) = {}
       /\ (r.pc = "done" /\ r.res = "ok") =>
            /\ r.app \notin nginx
            /\ getPortAssignment(r.port) = 0
  /\ \A t \in TaskIds : tasks[t].kind = "create" =>
       LET r == tasks[t] IN
       /\ r.pc \in {"c_scan", "c_create"} =>
            \A q \in StartPort..(r.port - 1) : getPortAssignment(q) # 0
       /\ r.pc = "c_create" => getPortAssignment(r.port) = 0

(* The running application was deleted (its child was asked to stop) and  *)
(* an application created afterwards holds the port it had.                *)
C12_Witness ==
  /\ apps[1] = NoApp
  /\ procs[1].asked /\ ~procs[1].alive
  /\ 1 \notin nginx
  /\ \E a \in AppIds \ {1} :
       /\ apps[a] # NoApp
       /\ apps[a].port = StartPort
       /\ getPortAssignment(StartPort) = a

(* C13: after a failed deployApp the persisted application status equals  *)
(* the status it had before the call.                                      *)
C13_FailedDeployKeepsStatus ==
  \A t \in TaskIds :
    (tasks[t].kind = "deploy" /\ tasks[t].pc = "done"
       /\ tasks[t].res = "failed") =>
      apps[tasks[t].app].status = tasks[t].pre.status

(* C14: activation repoints `current` in one step: while a deploy or a    *)
(* rollback of an application that has a `current` link is in progress,   *)
(* and after it has ended in any way, a reader of the link finds the      *)
(* release it named before the call or the release of the call, never a   *)
(* missing link.                                                           *)
C14_CurrentNeverMissing ==
  \A t \in TaskIds :
    LET r == tasks[t] IN
    (r.kind \in {"deploy", "rollback"} /\ r.pre.link # 0) =>
      fs[r.name].current \in {r.pre.link, r.dep}

(* C15: within one application no two deployment records have the same   *)
(* version, and the version of a new deployment is greater than the       *)
(* version of every deployment the application had when deployApp was     *)
(* called.                                                                 *)
C15_VersionsUniqueAndIncreasing ==
  /\ \A d1, d2 \in DepIds :
       (d1 # d2 /\ deps[d1] # NoDeployment /\ deps[d1].appId = deps[d2].appId)
         => deps[d1].version # deps[d2].version
  /\ \A t \in TaskIds :
       LET r == tasks[t] IN
       (r.kind = "deploy" /\ r.dep # 0 /\ deps[r.dep] # NoDeployment
          /\ r.pre.deps[r.dep] = NoDeployment) =>
         \A d \in DepIds :
           r.pre.deps[d].appId = r.app =>
             deps[r.dep].version > r.pre.deps[d].version

(* http://<subdomain>.denploy.local: the host name of the primary          *)
(* subdomain.                                                              *)
hostname(sub) == sub \o ".denploy.local"

Hostnames(a) ==
  IF apps[a] = NoApp THEN {} ELSE {hostname(apps[a].sub)} \cup apps[a].domains

(* C16: no host name is held by two applications at once: a primary       *)
(* subdomain or custom domain registered for one application is never     *)
(* also registered, as subdomain or custom domain, for another one.        *)
C16_HostnamesDisjoint ==
  \A a1, a2 \in AppIds : a1 # a2 => Hostnames(a1) \cap Hostnames(a2) = {}

(* startApp has spawned a child for the application since the platform    *)
(* process started.                                                        *)
StartedSinceBoot(a) == \E p \in Pids : p >= boot /\ procs[p].appId = a

(* C17: after a platform restart the process table is empty and no         *)
(* application is reported with status `running` until it has been         *)
(* started again: an application that has not been started since the       *)
(* restart has no table entry and its persisted status, which is what      *)
(* the API reports, is not `running`.                                       *)
C17_NotRunningAfterRestart ==
  \A a \in AppIds :
    (boot > 1 /\ ~StartedSinceBoot(a)) =>
      /\ processes[a] = 0
      /\ apps[a].status # "running"

(* No chunk is waiting in a pipe of the application's children and no     *)
(* capture loop is between two of its lines.                               *)
CaptureIdle(a) ==
  \A p \in Pids : procs[p].appId = a =>
    \A s \in Streams : pipe[p][s] = <<>> /\ cap[p][s] = 0

Inbox(c) == {clients[c].recv[i] : i \in 1..Len(clients[c].recv)}

(* C18: every non-empty line a supervised process writes is persisted as  *)
(* a log entry of its application and is forwarded to every client that   *)
(* is subscribed to the application at that moment: once the capture      *)
(* loops have consumed what was written, the application has one entry    *)
(* per non-empty line, and a client that is connected and subscribed has  *)
(* been sent every entry stored since it subscribed.                       *)
C18_LinesStoredAndForwarded ==
  \A a \in AppIds :
    CaptureIdle(a) =>
      /\ logs[a] = emitted[a]
      /\ \A c \in ClientIds :
           (clients[c].open /\ clients[c].appId = a) =>
             \A k \in (clients[c].since + 1)..logs[a] :
               LogMsg(a, k) \in Inbox(c)

(* C19: on subscribe a client is sent the most recent N stored entries of *)
(* the application before any live entry of it, and there is no gap: a    *)
(* live entry in an inbox comes after a history of its application, a     *)
(* history holds at most N entries and starts at the first entry unless   *)
(* it holds N, and once the subscribe call has returned and the capture   *)
(* loops have consumed what was written, a connected, subscribed client   *)
(* has been sent, in a history or live, every entry stored since it       *)
(* subscribed.                                                             *)
C19_HistoryThenLiveWithoutGap ==
  \A c \in ClientIds :
    LET cl == clients[c] IN
    /\ \A i \in 1..Len(cl.recv) :
         /\ cl.recv[i][1] = "log" =>
              \E j \in 1..(i - 1) :
                cl.recv[j][1] = "logs_history" /\ cl.recv[j][2] = cl.recv[i][2]
         /\ cl.recv[i][1] = "logs_history" =>
              /\ cl.recv[i][4] - cl.recv[i][3] + 1 <= HistoryLimit
              /\ \/ cl.recv[i][3] = 1
                 \/ cl.recv[i][4] - cl.recv[i][3] + 1 = HistoryLimit
    /\ (cl.open /\ cl.appId # 0 /\ cl.pc = "idle" /\ CaptureIdle(cl.appId)) =>
         \A k \in (cl.since + 1)..logs[cl.appId] :
           \E m \in Inbox(c) :
             /\ m[1] \in {"log", "logs_history"}
             /\ m[2] = cl.appId
             /\ m[3] <= k /\ k <= m[4]

C21_OnlyOwnerActs ==
  [][/\ \A t \in TaskIds :
          (CanBegin(t) /\ reqs' = reqs - 1 /\ session # Owner) =>
            /\ tasks'[t].pc = "done"
            /\ tasks'[t].res = "rejected"
            /\ UNCHANGED <<apps, subIndex, deps, ports, fs, nginx,
                           processes, procs, logs, clients>>
     /\ \A c \in ClientIds :
          \A i \in 1..Len(clients'[c].recv) :
            clients'[c].recv[i][1] \in {"log", "logs_history"} =>
              clients'[c].user = Owner]_vars

(* A request of another user was refused, a client of that user was       *)
(* refused its subscription, and the application still runs as before.    *)
C21_Witness ==
  /\ session # Owner
  /\ \E t \in TaskIds :
       /\ tasks[t].pc = "done"
       /\ tasks[t].res = "rejected"
       /\ tasks[t].stage = "unauthorized"
  /\ \E c \in ClientIds :
       clients[c].user # Owner /\ Refusal \in Inbox(c)
  /\ apps[1].status = "running" /\ processes[1] = 1


(* C22: once a restart (or a start that found an entry in the table) has  *)
(* been answered with success, and for as long as the child it spawned    *)
(* lives without having been asked to stop (every other child of the     *)
(* application is one that stopApp replaced), the table maps the          *)
(* application to that child and the persisted status is `running`: the   *)
(* exit watcher and the stop bookkeeping of the replaced child do not     *)
(* remove the entry or overwrite the status.                               *)
C22_RestartLeavesRunning ==
  \A t \in TaskIds :
    ( /\ tasks[t].kind \in {"start", "restart"}
      /\ tasks[t].pc = "done"
      /\ tasks[t].res = "ok"
      /\ tasks[t].spawned # 0
      /\ procs[tasks[t].spawned].alive
      /\ ~procs[tasks[t].spawned].asked
      /\ \E q \in Pids : procs[q].appId = tasks[t].app /\ procs[q].asked
      /\ \A q \in Pids \ {tasks[t].spawned} :
           procs[q].appId = tasks[t].app => procs[q].asked )
    => /\ processes[tasks[t].app] = tasks[t].spawned
       /\ apps[tasks[t].app].status = "running"


(* C23: once a stop request for a running application has been answered   *)
(* with success, and until the next request, the application has no       *)
(* entry in the table and its persisted status is `stopped`: the exit     *)
(* watcher of the process that stopApp ended (every child of the          *)
(* application was ended by stopApp) does not turn it into `crashed`.     *)
C23_StoppedStaysStopped ==
  \A t \in TaskIds :
    ( /\ tasks[t].kind = "stop"
      /\ tasks[t].pc = "done"
      /\ tasks[t].res = "ok"
      /\ \E q \in Pids : procs[q].appId = tasks[t].app
      /\ \A q \in Pids : procs[q].appId = tasks[t].app =>
           procs[q].asked /\ ~procs[q].alive )
    => /\ processes[tasks[t].app] = 0
       /\ apps[tasks[t].app].status = "stopped"


(* C24: once the delete operation has removed an application record, no   *)
(* later or concurrent write makes it reappear: an identifier that has    *)
(* been given out and has no record has no record after any step.         *)
C24_DeletedStaysDeleted ==
  [][\A a \in AppIds :
       (a < nextApp /\ apps[a] = NoApp) => apps'[a] = NoApp]_vars


(* C25: the current-deployment pointer of an application always names a   *)
(* deployment of that application, and a rollback that was answered with  *)
(* success leaves the application with an active deployment: it does not  *)
(* point the application at another application's deployment, nor demote  *)
(* the active record without promoting one.                                *)
C25_CurrentIsOwnDeployment ==
  /\ \A a \in AppIds :
       (apps[a] # NoApp /\ apps[a].cur # 0) => deps[apps[a].cur].appId = a
  /\ \A t \in TaskIds :
       ( /\ tasks[t].kind = "rollback"
         /\ tasks[t].pc = "done"
         /\ tasks[t].res = "ok"
         /\ apps[tasks[t].app] # NoApp )
       => ActiveDeployments(tasks[t].app) # {}


(* C26: a deploy, rollback or delete of one application never changes the *)
(* `current` link, the release directories or the files of another        *)
(* application, also when both have the same owner and name: a step taken *)
(* while no request for an application is in progress leaves that         *)
(* application's directory as it was.                                      *)
C26_OtherApplicationsFilesUntouched ==
  [][\A a \in AppIds :
       ( /\ apps[a] # NoApp
         /\ \A t \in TaskIds : Busy(t) => tasks[t].app # a )
       => fs'[apps[a].name] = fs[apps[a].name]]_vars


(* C27: whenever no request is in progress, the current-deployment        *)
(* pointer of an application, its single active deployment record and the *)
(* target of its `current` link name the same deployment, or there is     *)
(* none of the three; also after a deploy or rollback that failed at the  *)
(* restart.  (Requests that failed while replacing the link are left out: *)
(* they are the subject of C14.)                                           *)
C27_PointerRecordAndLinkAgree ==
  Quiescent =>
    \A a \in AppIds :
      ( /\ apps[a] # NoApp
        /\ \A t \in TaskIds :
             tasks[t].app = a => tasks[t].stage # "activate" ) =>
        \/ /\ apps[a].cur = 0
           /\ ActiveDeployments(a) = {}
           /\ fs[apps[a].name].current = 0
        \/ /\ apps[a].cur # 0
           /\ ActiveDeployments(a) = {apps[a].cur}
           /\ fs[apps[a].name].current = apps[a].cur


(* C28: every change of a deployment record's status is its creation as   *)
(* `building` or one of building -> active, building -> failed,           *)
(* active -> inactive, inactive -> active; in particular an `active`      *)
(* record is not set to `failed` and a `failed` record never changes.     *)
C28_StatusTransitions ==
  [][\A d \in DepIds :
       deps'[d].status # deps[d].status =>
         <<deps[d].status, deps'[d].status>> \in
           {<<"none", "building">>, <<"building", "active">>,
            <<"building", "failed">>, <<"active", "inactive">>,
            <<"inactive", "active">>}]_vars


(* C29: deployApp persists the deployment record with status `building`   *)
(* before it creates the release directory or writes any file: a step     *)
(* that adds a release directory finds the record of that deployment in   *)
(* the store, `building`, and no step removes a deployment record, so an  *)
(* interruption after the directory exists leaves a record behind.        *)
C29_RecordBeforeFiles ==
  [][/\ \A n \in Names : \A d \in DepIds :
          (d \in fs'[n].releases /\ d \notin fs[n].releases) =>
            /\ deps[d].status = "building"
            /\ apps[deps[d].appId].name = n
     /\ \A d \in DepIds :
          deps[d] # NoDeployment => deps'[d] # NoDeployment]_vars

(* A deploy has created its release directory and is about to activate    *)
(* it; its record is in the store, still `building`.                       *)
C29_Witness ==
  \E t \in TaskIds :
    /\ tasks[t].kind = "deploy"
    /\ tasks[t].pc = "act"
    /\ tasks[t].dep \in fs[tasks[t].name].releases
    /\ deps[tasks[t].dep].status = "building"
    /\ deps[tasks[t].dep].appId = tasks[t].app


(* C30: updateApp changes only the fields it is given, also when calls    *)
(* overlap: the list of custom domains of an application is changed only  *)
(* by the write of a domain request, and its status only by the write of  *)
(* a status update (here the exit watcher's), so that the effects of both *)
(* survive.                                                                *)
C30_UpdateChangesGivenFieldsOnly ==
  [][\A a \in AppIds :
       (apps[a] # NoApp /\ apps'[a] # NoApp) =>
         /\ apps'[a].domains # apps[a].domains =>
              \E t \in TaskIds : /\ tasks[t].pc = "m_wr"
                                 /\ tasks[t].app = a
                                 /\ tasks'[t].pc # "m_wr"
         /\ apps'[a].status # apps[a].status =>
              \E p \in Pids : /\ procs[p].mon = "wr"
                              /\ procs[p].appId = a
                              /\ procs'[p].mon = "done"]_vars


ReleaseRemovedByCleanup(n, d) ==
  /\ d \in fs[n].releases
  /\ d \notin fs'[n].releases
  /\ \E t \in TaskIds : tasks[t].pc = "d_del" /\ tasks'[t] # tasks[t]

(* C31: cleanupOldDeployments never deletes the release directory of the  *)
(* deployment that is active at that moment, and the deploy that called   *)
(* it is answered with success whether or not a deletion raised an error. *)
C31_CleanupSparesActive ==
  [][/\ \A n \in Names : \A d \in DepIds :
          ReleaseRemovedByCleanup(n, d) => deps[d].status # "active"
     /\ \A t \in TaskIds :
          (tasks[t].pc \in {"d_clean", "d_del"} /\ tasks'[t].pc = "done")
            => tasks'[t].res = "ok"]_vars


(* C32: after a successful deploy the application's directory holds no    *)
(* more release directories than the configured number of deployments to  *)
(* keep, plus one for an active deployment that lies beyond it: the       *)
(* number of retained release directories does not grow past the cap.     *)
C32_ReleasesCapped ==
  \A t \in TaskIds :
    (tasks[t].kind = "deploy" /\ tasks[t].pc = "done" /\ tasks[t].res = "ok")
      => Cardinality(fs[tasks[t].name].releases) <= maxDeployments + 1


(* C33: every deployment with status `inactive`, that is every deployment *)
(* rollback accepts as its target, has its release directory on disk, and *)
(* the `current` link of an application never names a release directory   *)
(* that is not there.                                                      *)
C33_InactiveHasRelease ==
  \A a \in AppIds :
    apps[a] # NoApp =>
      /\ \A d \in DepIds :
           (deps[d].appId = a /\ deps[d].status = "inactive")
             => d \in fs[apps[a].name].releases
      /\ fs[apps[a].name].current \in fs[apps[a].name].releases \cup {0}


(* C34: when spawning the child fails, startApp leaves no entry in the    *)
(* process table for the application, sets the persisted status to        *)
(* `error` and raises the error: the start or restart request is answered *)
(* with a failure in the step that writes the status.                      *)
C34_SpawnFailure ==
  [][\A t \in TaskIds :
       ( /\ tasks[t].pc \in {"serr_rd", "serr_wr"}
         /\ tasks[t].stage = "spawn" )
       => /\ processes[tasks[t].app] = 0
          /\ processes'[tasks[t].app] = 0
          /\ tasks'[t].pc = "done" =>
               /\ tasks[t].pc = "serr_wr"
               /\ tasks'[t].res = "failed"
               /\ tasks'[t].stage = "spawn"
               /\ apps'[tasks[t].app].status = "error"]_vars

(* A restart request has failed at the spawn: the application has no      *)
(* entry, no live child, and its status is `error`.                        *)
C34_Witness ==
  \E t \in TaskIds :
    /\ tasks[t].kind = "restart"
    /\ tasks[t].pc = "done"
    /\ tasks[t].res = "failed"
    /\ tasks[t].stage = "spawn"
    /\ processes[tasks[t].app] = 0
    /\ LiveChildren(tasks[t].app) = {}
    /\ apps[tasks[t].app].status = "error"


FreePorts == {p \in startPort..MaxPort : getPortAssignment(p) = 0}

(* C36: getNextAvailablePort(start) returns the smallest port p >= start  *)
(* that has no assignment, never a port above 65535, and fails with an    *)
(* error when every port from start to 65535 is assigned.                  *)
C36_SmallestFreePort ==
  \A t \in TaskIds :
    tasks[t].kind = "create" =>
      /\ tasks[t].pc = "c_create" =>
           /\ tasks[t].port \in FreePorts
           /\ tasks[t].port <= MaxPort
           /\ \A p \in FreePorts : tasks[t].port <= p
      /\ (tasks[t].pc = "done" /\ tasks[t].res = "failed") =>
           /\ tasks[t].stage = "noport"
           /\ FreePorts = {}
      /\ tasks[t].pc = "c_scan" => FreePorts \cap startPort..(tasks[t].port - 1) = {}
      /\ (FreePorts = {} /\ tasks[t].pc # "c_scan") =>
           (tasks[t].pc = "done" /\ tasks[t].res = "failed")

(* The scan has passed assigned ports and returned the last port of the   *)
(* range.                                                                   *)
C36_Witness ==
  \E t \in TaskIds :
    /\ tasks[t].kind = "create"
    /\ tasks[t].pc = "c_create"
    /\ tasks[t].port = MaxPort
    /\ startPort < MaxPort
    /\ \A p \in startPort..(MaxPort - 1) : getPortAssignment(p) # 0


(* C37: stopApp sends SIGTERM first and sends SIGKILL only when its grace *)
(* timer fires while the child has not exited; once the child has exited  *)
(* the timer is cancelled and no SIGKILL is sent; and in both cases       *)
(* stopApp eventually returns.                                             *)
C37_GracefulThenForced ==
  /\ [][\A t \in TaskIds : \A p \in Pids :
          (<<t, p>> \in sigkill' /\ <<t, p>> \notin sigkill)
            => /\ procs[p].asked
               /\ procs[p].alive
               /\ tasks[t].pc = "stop_wait"
               /\ tasks[t].pid = p]_vars
  /\ \A t \in TaskIds :
       (tasks[t].pc = "stop_wait")
         ~> (tasks[t].pc \notin {"stop_wait", "stop_rd", "stop_wr"})

(* A stop request has returned after its timer fired and the child was    *)
(* killed.                                                                 *)
C37_Witness ==
  \E t \in TaskIds : \E p \in Pids :
    /\ tasks[t].kind = "stop"
    /\ tasks[t].pc = "done"
    /\ tasks[t].res = "ok"
    /\ <<t, p>> \in sigkill
    /\ ~procs[p].alive
    /\ procs[p].asked


(* C39: the health-check job never marks as `crashed`, stops or removes   *)
(* an application whose process is still in the process table: a step of  *)
(* the job leaves the table alone, signals a child only when the          *)
(* application has no record, writes the status only when the table has   *)
(* no entry for the application, and after a failed or timed-out probe of *)
(* an application with an entry it goes on to the next entry.              *)
C39_JobSparesTabledApplications ==
  [][\A t \in TaskIds :
       ( /\ tasks[t].kind = "health"
         /\ tasks[t].pc \in {"h_next", "h_get", "h_probe", "h_rd", "h_wr"}
         /\ tasks'[t] # tasks[t] )
       => /\ processes' = processes
          /\ procs' # procs => apps[tasks[t].app] = NoApp
          /\ apps' # apps => processes[tasks[t].app] = 0
          /\ (tasks[t].pc = "h_probe" /\ processes[tasks[t].app] # 0) =>
               (tasks'[t].pc = "h_next" /\ apps' = apps /\ procs' = procs)]_vars


(* C38: the stored log entries of an application are read back            *)
(* (getLogsByApp, and the history sent on subscribe) in emission order    *)
(* per stream: of two entries of the same stream in the list, which has   *)
(* the newest entry first, the one that comes first is the line emitted   *)
(* later, also when both have the same millisecond timestamp.              *)
C38_EmissionOrderPerStream ==
  LET l == listLogs(HistoryLimit) IN
  \A i, j \in 1..Len(l) :
    (i < j /\ l[i].stream = l[j].stream) => l[i].n > l[j].n


(* C40: changing the name of an application does not change which release *)
(* its `current` link resolves to: the link found under the application's *)
(* name is the release of its active deployment, before and after a       *)
(* rename, and the child that start or restart puts into the process      *)
(* table runs that release.                                                 *)
C40_RenameKeepsRelease ==
  \A a \in AppIds :
    apps[a] # NoApp =>
      /\ fs[apps[a].name].current = apps[a].cur
      /\ processes[a] # 0 => procs[processes[a]].rel = apps[a].cur

============================================================================
